------------------------------ MODULE Opening ------------------------------
(***************************************************************************)
(* How a path becomes a read handle (archive.rs): the plain and encrypted  *)
(* opens, the self-extracting fallback, a payload read where it lies or    *)
(* staged into a temporary file, and the stub read back.  Every open and   *)
(* every stat of the path is a step of its own, since another process may  *)
(* put a different file there, put an earlier one back, or change a file's *)
(* length, between any two.  A temporary file is private: the open of the  *)
(* staged copy is one step.                                                *)
(***************************************************************************)
EXTENDS SfxDetection

CONSTANTS
    Contents,    \* what may stand at the path
    Calls,       \* [op, suffix, offset, cap]: the calls, and the path's name
    MaxMeddles   \* changes other processes make

Ops == {"open", "open_encrypted", "open_sfx", "open_at_offset", "extract_stub"}

ASSUME OpeningAssumption ==
    /\ Contents \subseteq Content
    /\ Calls \subseteq [op : Ops, suffix : {"exec", "plain", "targzip"},
                       offset : Nat, cap : Nat]
    /\ MaxMeddles \in Nat

VARIABLES
    files,    \* the files that have stood at the path, with their content
    path,     \* the one that stands there
    put_back, \* an earlier one was put there again (a history)
    meddles,
    call,
    pc,
    bound,    \* the identity the call compares with
    source,   \* the file whose bytes the verdict was reached on, or 0
    looks,    \* the files opened through the path since (a history)
    seen,     \* the format and offset it is about to open
    copy,     \* the descriptor a payload or a stub is read from
    temps,    \* the temporary files on disk
    handle,
    listed,   \* the identity the handle's listing was taken from
    ratio,    \* the denominator handed to the ratio gate
    result

world == <<files, path, put_back, meddles>>
verdict == <<bound, source, looks, seen>>
answer == <<handle, listed, ratio, result>>
vars == <<world, call, pc, verdict, copy, temps, answer>>

NoCall == [op |-> "none", suffix |-> "plain", offset |-> 0, cap |-> 0]
NoFile == [file |-> 0, len |-> 0]
NoCopy == [file |-> 0, size |-> 0, got |-> 0]
NoHandle == [format |-> "none", reads |-> 0, file |-> 0, base |-> 0,
             at |-> {}, owned |-> 0, bound |-> NoFile]
NoTemps == <<>>

Now == files[path]

\* (dev, ino, len) of the file with this number.
read_file_identity(n) == [file |-> n, len |-> Len(files[n].marks)]

Init ==
    /\ \E c \in Contents : files = <<c>>
    /\ path = 1 /\ put_back = FALSE /\ meddles = 0
    /\ call = NoCall /\ pc = "idle"
    /\ bound = NoFile /\ source = 0 /\ looks = {} /\ seen = {}
    /\ copy = NoCopy /\ temps = NoTemps
    /\ handle = NoHandle /\ listed = NoFile /\ ratio = {} /\ result = "none"

-----------------------------------------------------------------------------
\* How a call goes on and ends.

At_(step) == pc = step
To(step) == pc' = step
Look == looks' = looks \union {path}
Refuse ==
    /\ To("done") /\ result' = "err" /\ temps' = NoTemps
    /\ handle' = NoHandle /\ UNCHANGED <<listed, ratio>>
Grant(h) ==
    /\ To("open") /\ result' = "ok" /\ handle' = h
    /\ UNCHANGED <<listed, ratio>>

Encrypted == call.op = "open_encrypted"
Coded == {"zip", "rar", "sevenz"}
Sees(d) == CHOOSE x \in d : TRUE

\* ZIP and 7z keep the path and open nothing; UnRAR and libarchive open the
\* file, between two looks at its identity, and keep the first.
Lazy == {"zip", "sevenz"}

new_read(f) ==
    [NoHandle EXCEPT !.format = f,
        !.bound = IF f \in Lazy THEN NoFile ELSE read_file_identity(path)]

in_place_handle(f, o) ==
    [new_read(f) EXCEPT !.base = IF f = "sevenz" THEN o ELSE 0, !.at = {o}]

Constructs(h) ==
    /\ handle' = h
    /\ To(IF h.format \in Lazy THEN "revalidate" ELSE "native")

Call ==
    /\ At_("idle")
    /\ \E k \in Calls :
         /\ call' = k
         /\ To(CASE k.op \in {"open", "open_encrypted"} -> "capture"
                 [] k.op = "open_sfx" -> "sfx"
                 [] k.op = "extract_stub" -> "probe"
                 [] OTHER -> IF k.offset = 0 THEN "capture" ELSE "magic")
         /\ seen' = IF k.op = "open_at_offset"
                    THEN {[format |-> "any", offset |-> k.offset]} ELSE {}
    /\ UNCHANGED <<world, bound, source, looks, copy, temps, answer>>

-----------------------------------------------------------------------------
\* The plain and the encrypted open.

capture_read_identity ==
    /\ At_("capture")
    /\ bound' = read_file_identity(path) /\ To("detect")
    /\ UNCHANGED <<world, call, source, looks, seen, copy, temps, answer>>

Detect ==
    /\ At_("detect")
    /\ \/ /\ detect(Now, call.suffix) # {}
          /\ seen' = {[format |-> f, offset |-> 0] :
                         f \in detect(Now, call.suffix)}
          /\ source' = path /\ looks' = {path} /\ To("build")
          /\ UNCHANGED <<temps, answer>>
       \/ /\ detect(Now, call.suffix) = {} /\ call.suffix = "exec"
          /\ To("sfx") /\ UNCHANGED <<source, looks, seen, temps, answer>>
       \/ /\ detect(Now, call.suffix) = {} /\ call.suffix # "exec"
          /\ Refuse /\ UNCHANGED <<source, looks, seen>>
    /\ UNCHANGED <<world, call, bound, copy>>

Builds(f, c) ==
    /\ Encrypted => f \in Coded
    /\ f = "rar" => rar_opens(c)

open_as_format ==
    /\ At_("build")
    /\ LET f == Sees(seen).format IN
         \/ /\ Encrypted => f \in Coded
            /\ Constructs(new_read(f))
            /\ UNCHANGED <<temps, listed, ratio, result>>
         \/ Encrypted /\ f \notin Coded /\ Refuse
    /\ UNCHANGED <<world, call, verdict, copy>>

\* Off Unix an identity is a length, and no more.
DriftedOffUnix == Len(Now.marks) # bound.len

Drifted == read_file_identity(path) # bound

revalidate_read_identity ==
    /\ At_("revalidate")
    /\ \/ bound # NoFile /\ Drifted /\ Refuse
       \/ (bound = NoFile \/ ~Drifted) /\ Grant(handle) /\ UNCHANGED temps
    /\ UNCHANGED <<world, call, verdict, copy>>

-----------------------------------------------------------------------------
\* The payload behind a stub: detection, and the in-place gates.

DetectSfx ==
    /\ At_("sfx")
    /\ \/ /\ detect_sfx(Now) # {}
          /\ seen' = detect_sfx(Now) /\ source' = path /\ looks' = {path}
          /\ bound' = read_file_identity(path)
          /\ To(IF Encrypted THEN "stage" ELSE "magic")
          /\ UNCHANGED <<temps, answer>>
       \/ detect_sfx(Now) = {} /\ Refuse /\ UNCHANGED verdict
    /\ UNCHANGED <<world, call, copy>>

\* The backend whose signature lies at the offset, if the hint allows it.
Arms(c, d) ==
    {f \in Coded : Signature(At(c, d.offset)) = {f} /\ d.format \in {"any", f}}

magic_at ==
    /\ At_("magic")
    /\ LET d == Sees(seen) IN
         \/ /\ call.suffix = "exec" /\ Arms(Now, d) # {} /\ Look
            /\ seen' = {[format |-> f, offset |-> d.offset] :
                           f \in Arms(Now, d)}
            /\ copy' = [NoCopy EXCEPT !.got = IF d.format = "any"
                                              THEN 1 ELSE 0]
            /\ To("agree")
         \/ /\ call.suffix = "exec" /\ Arms(Now, d) = {} /\ Look
            /\ To("stage") /\ UNCHANGED <<seen, copy>>
         \/ /\ call.suffix # "exec"
            /\ To("stage") /\ UNCHANGED <<looks, seen, copy>>
    /\ UNCHANGED <<world, call, bound, source, temps, answer>>

\* A declined payload is staged under the hint it came with.
Decline ==
    /\ To("stage") /\ copy' = NoCopy
    /\ seen' = {[d EXCEPT !.format = IF copy.got = 1 THEN "any" ELSE @] :
                   d \in seen}

\* The gate of 7z is the signature alone.
try_open_in_place ==
    /\ At_("agree")
    /\ LET d == Sees(seen) IN
         /\ \/ /\ Agrees(d.format, Now, d.offset)
               /\ To("construct") /\ UNCHANGED <<seen, copy>>
            \/ ~Agrees(d.format, Now, d.offset) /\ Decline
         /\ IF d.format = "sevenz" THEN UNCHANGED looks ELSE Look
    /\ UNCHANGED <<world, call, bound, source, temps, answer>>

open_in_place ==
    /\ At_("construct")
    /\ LET d == Sees(seen) IN Constructs(in_place_handle(d.format, d.offset))
    /\ UNCHANGED <<world, call, verdict, copy, temps, listed, ratio, result>>

-----------------------------------------------------------------------------
\* The native open of UnRAR and libarchive.

\* A constructor that fails makes the in-place open decline, and any other
\* be refused.
Abandon ==
    \/ /\ handle.at # {} /\ handle' = NoHandle
       /\ Decline /\ UNCHANGED <<temps, listed, ratio, result>>
    \/ handle.at = {} /\ Refuse /\ UNCHANGED <<seen, copy>>

\* A damaged archive may be refused here.
OpenNative ==
    /\ At_("native") /\ Look
    /\ \/ /\ handle.format = "rar" => rar_opens(Now)
          /\ handle' = [handle EXCEPT !.file = path] /\ To("bracket")
          /\ UNCHANGED <<seen, copy, temps, listed, ratio, result>>
       \/ Abandon
    /\ UNCHANGED <<world, call, bound, source>>

\* UnRAR compares the inode, libarchive the length too.
Moved ==
    IF handle.format = "rar" THEN path # handle.bound.file
    ELSE read_file_identity(path) # handle.bound

\* libarchive then looks at the first header.
StatAfter ==
    /\ At_("bracket")
    /\ \/ /\ ~Moved /\ To("revalidate")
          /\ UNCHANGED <<seen, copy, temps, answer>>
       \/ (Moved \/ handle.format # "rar") /\ Abandon
    /\ UNCHANGED <<world, call, bound, source, looks>>

-----------------------------------------------------------------------------
\* Staging: the payload is copied through one descriptor into a temporary
\* file, never past the size the ceiling was asked about.

stage_sfx_payload ==
    /\ At_("stage")
    /\ LET o == Sees(seen).offset
           size == Len(Now.marks) - o IN
         \/ /\ bound = NoFile \/ ~Drifted
            /\ size > 0 /\ size <= call.cap
            /\ copy' = [file |-> path, size |-> size, got |-> 0]
            /\ temps' = [t \in {1} |-> [marks |-> <<>>, zips |-> {}]]
            /\ To("copy") /\ UNCHANGED answer
         \/ Refuse /\ UNCHANGED copy   \* drift, the ceiling, no space
    /\ Look /\ UNCHANGED <<world, call, bound, source, seen>>

Unread == At(files[copy.file], Sees(seen).offset + copy.got)

\* Whatever the source has is copied.
BoundedBySource == TRUE

Bounded == copy.got < copy.size

CopyChunk ==
    /\ At_("copy") /\ Bounded /\ Unread # "end"
    /\ copy' = [copy EXCEPT !.got = @ + 1]
    /\ temps' = [temps EXCEPT ![1].marks = Append(@, Unread)]
    /\ UNCHANGED <<world, call, pc, verdict, answer>>

\* A read or a write fails, or the caller's progress callback cancels.
CopyFails ==
    /\ At_("copy") /\ Refuse
    /\ UNCHANGED <<world, call, verdict, copy>>

CopyEnds ==
    /\ At_("copy") /\ (~Bounded \/ Unread = "end")
    /\ \/ /\ copy.got = copy.size
          /\ temps' = [temps EXCEPT ![1].zips =
                         Slice(files[copy.file], Sees(seen).offset).zips]
          /\ To("staged") /\ UNCHANGED answer
       \/ copy.got # copy.size /\ Refuse
    /\ UNCHANGED <<world, call, verdict, copy>>

-----------------------------------------------------------------------------
\* The open of a file nobody else touches.

\* The name of the copy ends as the detected format's files do; without a
\* detected format, as the outer file's does.
stage_suffix_for == IF Sees(seen).format = "any" THEN call.suffix
                    ELSE Sees(seen).format

\* A handle on temporary file t, a copy out of the file at the path then.
staged(f, t, base, at) ==
    [NoHandle EXCEPT !.format = f, !.reads = t, !.file = copy.file,
        !.base = base, !.at = at]

\* The temporary file holding a payload found at d in temporary file 1, and
\* the handles opened on it.
Restaged(c, d) ==
    {staged(f, 2, 0, {}) :
        f \in {g \in detect(Slice(c, d.offset), d.format) :
                  Builds(g, Slice(c, d.offset))}}

OpenSfx(c, d) ==
    IF /\ ~Encrypted /\ d.format \in Coded
       /\ Agrees(d.format, c, d.offset)
       /\ d.format = "rar" => rar_opens(c)
    THEN {staged(d.format, 1, IF d.format = "sevenz" THEN d.offset ELSE 0,
                 {d.offset})}
    ELSE {[h EXCEPT !.owned = 2] : h \in Restaged(c, d)}

Opens(c, suffix) ==
    IF detect(c, suffix) # {}
    THEN {staged(f, 1, 0, {}) :
             f \in {g \in detect(c, suffix) : Builds(g, c)}}
    ELSE UNION {OpenSfx(c, d) :
             d \in IF suffix = "exec" THEN detect_sfx(c) ELSE {}}

\* The handle takes the copy for its backing, in the place of whatever
\* backing the open gave it: a second copy made on the way is removed.
OpenStaged ==
    /\ At_("staged")
    /\ \/ \E h \in Opens(temps[1], stage_suffix_for) :
            Grant([h EXCEPT !.owned = 1, !.at = {}]) /\ UNCHANGED temps
       \/ Opens(temps[1], stage_suffix_for) = {} /\ Refuse
    /\ UNCHANGED <<world, call, verdict, copy>>

-----------------------------------------------------------------------------
\* The stub, read back through a detection the caller holds.

DetectAgain ==
    /\ At_("probe")
    /\ \/ /\ \E d \in detect_sfx(Now) : d.offset = call.offset
          /\ seen' = detect_sfx(Now) /\ source' = path /\ To("stat_stub")
          /\ UNCHANGED <<temps, answer>>
       \/ /\ \A d \in detect_sfx(Now) : d.offset # call.offset
          /\ Refuse /\ UNCHANGED <<seen, source>>
    /\ UNCHANGED <<world, call, bound, looks, copy>>

StatStub ==
    /\ At_("stat_stub")
    /\ bound' = read_file_identity(path) /\ To("open_stub")
    /\ UNCHANGED <<world, call, source, looks, seen, copy, temps, answer>>

OpenStub ==
    /\ At_("open_stub")
    /\ \/ /\ ~Drifted /\ To("read_stub")
          /\ copy' = [file |-> path, size |-> Sees(seen).offset, got |-> 0]
          /\ UNCHANGED <<temps, answer>>
       \/ Drifted /\ Refuse /\ UNCHANGED copy
    /\ UNCHANGED <<world, call, verdict>>

ReadStub ==
    /\ At_("read_stub")
    /\ \/ /\ copy.size <= Len(files[copy.file].marks) /\ To("stat_again")
          /\ copy' = [copy EXCEPT !.got = copy.size]
          /\ UNCHANGED <<temps, answer>>
       \/ /\ copy.size > Len(files[copy.file].marks)
          /\ Refuse /\ UNCHANGED copy
    /\ UNCHANGED <<world, call, verdict>>

StatAgain ==
    /\ At_("stat_again")
    /\ \/ /\ read_file_identity(copy.file) = bound
          /\ To("done") /\ result' = "ok"
          /\ UNCHANGED <<temps, handle, listed, ratio>>
       \/ read_file_identity(copy.file) # bound /\ Refuse
    /\ UNCHANGED <<world, call, verdict, copy>>

-----------------------------------------------------------------------------
\* The open handle is listed, and the ratio gate asks for its denominator.

\* source_path_for_reopen is the copy the handle owns, or else the path.
List ==
    /\ At_("open") /\ listed = NoFile
    /\ \/ /\ handle.reads = 0
          /\ handle.bound \in {NoFile, read_file_identity(path)}
          /\ handle' = [handle EXCEPT !.bound = read_file_identity(path),
                                     !.file = path]
          /\ listed' = read_file_identity(path) /\ Look
       \/ /\ handle.reads \in DOMAIN temps
          /\ listed' = [file |-> handle.file,
                        len |-> Len(temps[handle.reads].marks)]
          /\ UNCHANGED <<handle, looks>>
    /\ UNCHANGED <<world, call, pc, bound, source, seen, copy, temps, ratio,
                   result>>

SameFile(h) == h.bound = NoFile \/ h.bound = read_file_identity(path)

payload_size_for_ratio ==
    /\ At_("open") /\ listed # NoFile
    /\ LET len == Len(Now.marks) IN
         ratio' = IF handle.owned # 0 THEN {Len(temps[handle.owned].marks)}
                  ELSE IF ~SameFile(handle) THEN {}
                  ELSE {IF o <= len THEN len - o ELSE 0 :
                          o \in IF handle.at = {} THEN {0} ELSE handle.at}
    /\ To("done")
    /\ UNCHANGED <<world, call, verdict, copy, temps, handle, listed, result>>

-----------------------------------------------------------------------------
\* Other processes: a new file at the path, an earlier one, a longer or
\* shorter one.

Meddle ==
    /\ meddles < MaxMeddles /\ pc \notin {"idle", "done"}
    /\ meddles' = meddles + 1
    /\ \/ /\ \E c \in Contents : files' = Append(files, c)
          /\ path' = Len(files) + 1 /\ UNCHANGED put_back
       \/ /\ path' \in DOMAIN files \ {path}
          /\ put_back' = TRUE /\ UNCHANGED files
       \/ /\ files' = [files EXCEPT ![path].marks = Append(@, "fill")]
          /\ UNCHANGED <<path, put_back>>
       \/ /\ \E n \in 1..(Len(Now.marks) - 1) :
               files' = [files EXCEPT ![path] =
                           [marks |-> SubSeq(@.marks, 1, n), zips |-> {}]]
          /\ UNCHANGED <<path, put_back>>
    /\ UNCHANGED <<call, pc, verdict, copy, temps, answer>>

Next ==
    \/ Call \/ capture_read_identity \/ Detect \/ open_as_format
    \/ revalidate_read_identity \/ DetectSfx \/ magic_at
    \/ try_open_in_place \/ open_in_place \/ OpenNative \/ StatAfter
    \/ stage_sfx_payload \/ CopyChunk \/ CopyFails \/ CopyEnds \/ OpenStaged
    \/ DetectAgain \/ StatStub \/ OpenStub \/ ReadStub \/ StatAgain
    \/ List \/ payload_size_for_ratio \/ Meddle

Spec == Init /\ [][Next]_vars

-----------------------------------------------------------------------------
\* Properties.

Identities == [file : 0..Len(files), len : Nat]

\* The types; an open that failed leaves no temporary file, and the one a
\* handle owns is on disk.
TypeOK ==
    /\ path \in 1..Len(files) /\ meddles \in 0..MaxMeddles
    /\ bound \in Identities /\ listed \in Identities
    /\ source \in 0..Len(files)
    /\ \A d \in seen : d.format \in Formats \union {"any"} /\ d.offset \in Nat
    /\ copy.got \in Nat /\ DOMAIN temps \subseteq {1}
    /\ result \in {"none", "ok", "err"}
    /\ pc = "open" => result = "ok" /\ handle # NoHandle
    /\ handle.owned \in {0} \union DOMAIN temps
    /\ result = "err" => temps = NoTemps

\* A verdict is about what is read.  A copied payload is of the file it was
\* detected in.  Of a payload at the path, and unless a replaced file is put
\* back, every look since the detection was at that file: the gates', the
\* native open's, and the listing's of UnRAR and libarchive.  ZIP and 7z take
\* their first look when they list, and nothing compares it with the verdict.
DetectedIsRead ==
    pc = "open" /\ source # 0 =>
        /\ handle.owned # 0 => handle.file = source
        /\ ~put_back /\ (listed = NoFile \/ handle.format \notin Lazy) =>
             looks = {source}

\* The same without the two provisos.
VerdictIsRead ==
    pc = "open" /\ source # 0 /\ listed # NoFile => listed.file = source

\* A payload read where it lies is the archive the offset names, the same a
\* staged copy from that offset would hold.
InPlaceReadsNamed ==
    pc = "open" /\ meddles = 0 =>
        \A o \in handle.at :
            /\ Reads(handle.format, Now, handle.base) = {o}
            /\ Reads(handle.format, Slice(Now, o), 0) = {0}

\* Staging never writes past the ceiling, however the source grows, and a
\* staged handle holds the payload to its last byte as it was detected.
StagingBounded ==
    /\ \A t \in DOMAIN temps : Len(temps[t].marks) <= call.cap
    /\ pc = "open" /\ handle.owned # 0 /\ source # 0 =>
         Len(temps[1].marks) = bound.len - Sees(seen).offset

\* The ratio gate divides by the size of the file that was listed, without
\* the stub before the payload, or is refused: a longer file put at the path
\* after the listing does not loosen it.
RatioOfListed ==
    \A size \in ratio : size <= listed.len /\
        \A o \in handle.at : size = IF o <= listed.len
                                   THEN listed.len - o ELSE 0

\* Where a handle reads, as offsets of the file at the path.
Shift(S, o) == {o + r : r \in S}

ReadsAt(h) ==
    IF h.owned = 0 THEN Reads(h.format, Now, h.base)
    ELSE Shift(Reads(h.format, temps[h.owned], h.base), Sees(seen).offset)

\* Where open_encrypted reads when it is handed the content c.
Reopened(c, suffix) ==
    IF detect(c, suffix) # {}
    THEN UNION {Reads(f, c, 0) : f \in detect(c, suffix)}
    ELSE UNION {Shift(Reads(d.format, Slice(c, d.offset), 0), d.offset) :
             d \in IF suffix = "exec" THEN detect_sfx(c) ELSE {}}

ReopensAt(h) ==
    IF h.owned = 0 THEN Reopened(Now, call.suffix)
    ELSE Shift(Reopened(temps[h.owned], stage_suffix_for), Sees(seen).offset)

\* An extraction with a password opens the archive anew: it reaches the
\* payload the handle lists, for every handle detection led to.
ReopenReadsPayload ==
    pc = "open" /\ meddles = 0 /\ handle.format \in Coded
        /\ call.op # "open_at_offset"
    => ReopensAt(handle) = ReadsAt(handle)

\* The same for a handle opened at an offset the caller named.
ReopenReadsOffset ==
    pc = "open" /\ meddles = 0 /\ handle.format \in Coded
        /\ call.op = "open_at_offset"
    => ReopensAt(handle) = ReadsAt(handle)

\* The file a backend reads exists as long as the handle.
BackedForLife == pc = "open" => handle.reads \in {0} \union DOMAIN temps

\* A stub handed out is of the file the offset was verified in.
StubIsVerified ==
    call.op = "extract_stub" /\ result = "ok" => copy.file = source

\* What a handle reads, what it weighs its entries against and what it opens
\* again for a password is one payload: the one it was opened for.
HandleKeepsPayload ==
    TypeOK /\ InPlaceReadsNamed /\ RatioOfListed /\ ReopenReadsPayload
=============================================================================
