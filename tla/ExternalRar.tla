---------------------------- MODULE ExternalRar ----------------------------
(***************************************************************************)
(* RAR creation through the installed rar program (external/rar.rs and     *)
(* external/rar/): find the binary, identify it, hand it an argument       *)
(* vector, read its exit code, look for the archive.  The program, the     *)
(* output path and the sources belong to others too, who may change any of *)
(* them between two steps.  What rar itself does is external: it adds to   *)
(* an archive that exists, and exits with 0 only when every named source   *)
(* went in.                                                                *)
(***************************************************************************)
EXTENDS Integers, Sequences, FiniteSetsExt

CONSTANTS
    Places,       \* absolute directories
    SearchLists,  \* PATH and the install directories, "." a relative entry
    Programs,     \* [flavor, major, minor]: what may be installed
    Sources,      \* files and directories to add
    Passwords,    \* "none", "good", "empty", "control", "nul"
    MaxEntries,
    MaxChanges

ASSUME SearchAssumption == SearchLists \subseteq Seq(Places \union {"."})

ASSUME ProgramAssumption ==
    Programs \subseteq [flavor : STRING, major : Nat, minor : Nat]

VARIABLES
    binaries,  \* place -> the program there
    present,    \* the sources on disk
    out,        \* what stands at the output path
    touched,    \* others changed it after the last look at it
    meddles,
    dirs,       \* the search list of this process
    pc,
    creator,    \* [exe, entries, password]
    child,      \* the rar a running or run: [program, made, code]
    swapped,    \* the program was changed after it was identified
    returned

world == <<binaries, present, out, touched, meddles, dirs>>
rarVars == <<world, pc, creator, child, swapped, returned>>

NoProgram == [flavor |-> "none", major |-> 0, minor |-> 0]
NoOutput == [by |-> "nobody", holds |-> {}, spoiled |-> FALSE]
OthersFile == [by |-> "other", holds |-> {}, spoiled |-> FALSE]
NoChild == [program |-> NoProgram, made |-> {}, code |-> "running"]

\* Path::exists and Path::is_file.
exists == out # NoOutput
is_file(place) == binaries[place] # NoProgram

RarInit ==
    /\ binaries \in [Places -> Programs \union {NoProgram}]
    /\ present = Sources
    /\ out \in {NoOutput, OthersFile}
    /\ touched = FALSE /\ meddles = 0 /\ dirs \in SearchLists
    /\ pc = "start"
    /\ creator = [exe |-> "none", entries |-> <<>>, password |-> "none"]
    /\ child = NoChild /\ swapped = FALSE /\ returned = "none"

To(step) == pc' = step
Refuse(error) == To("done") /\ returned' = error

-----------------------------------------------------------------------------
\* The binary: the first absolute directory of the list that has one.

Absolute(dir) == dir # "."

search_dirs ==
    LET hits == {i \in DOMAIN dirs : Absolute(dirs[i]) /\ is_file(dirs[i])}
    IN  IF hits = {} THEN {} ELSE {dirs[Min(hits)]}

\* RarCreator::new.
New ==
    /\ pc = "start"
    /\ \/ \E place \in search_dirs :
            creator' = [creator EXCEPT !.exe = place] /\ To("assemble")
               /\ UNCHANGED returned
       \/ search_dirs = {} /\ Refuse("BinaryNotFound") /\ UNCHANGED creator
    /\ UNCHANGED <<world, child, swapped>>

\* with_rar_exe_path: a relative path, a batch file and a path without a
\* program are refused; the first two are one case here.
vet_program ==
    /\ pc = "start"
    /\ \E place \in Places \union {"."} :
         \/ /\ Absolute(place) /\ is_file(place)
            /\ creator' = [creator EXCEPT !.exe = place] /\ To("assemble")
            /\ UNCHANGED returned
         \/ /\ (Absolute(place) => ~is_file(place))
            /\ Refuse("ProgramRejected") /\ UNCHANGED creator
    /\ UNCHANGED <<world, child, swapped>>

assemble ==
    /\ pc = "assemble"
    /\ IF exists THEN Refuse("OutputExists")
       ELSE To("ready") /\ UNCHANGED returned
    /\ UNCHANGED <<world, creator, child, swapped>>

\* add_file, add_directory: a source that is not there is refused, and the
\* creator goes on without it.
validate_path(s) == s \in present

Add ==
    /\ pc = "ready" /\ Len(creator.entries) < MaxEntries
    /\ \E s \in Sources :
         /\ validate_path(s)
         /\ creator' = [creator EXCEPT !.entries = Append(@, s)]
    /\ UNCHANGED <<world, pc, child, swapped, returned>>

set_password ==
    /\ pc = "ready"
    /\ \E p \in Passwords : creator' = [creator EXCEPT !.password = p]
    /\ UNCHANGED <<world, pc, child, swapped, returned>>

-----------------------------------------------------------------------------
\* RarCreator::create, step by step.

Expressible == creator.entries # <<>> /\ creator.password \in {"none", "good"}

build ==
    /\ pc = "ready"
    /\ IF Expressible THEN To("check") /\ UNCHANGED returned
       ELSE Refuse("InvalidArguments")
    /\ UNCHANGED <<world, creator, child, swapped>>

OutputFree ==
    /\ pc = "check"
    /\ IF exists THEN Refuse("OutputExists")
       ELSE To("probe") /\ UNCHANGED returned
    /\ UNCHANGED <<world, creator, child, swapped>>

Supported(p) == p.major > 5 \/ (p.major = 5 /\ p.minor >= 0)

\* Run without arguments a program names itself, or does not.
parse_banner(p) == IF p.flavor \in {"rar", "unrar"} THEN {p} ELSE {}

can_create(p) == p.flavor = "rar"

probe_binary ==
    /\ pc = "probe"
    /\ LET p == binaries[creator.exe] IN
         \/ p = NoProgram /\ Refuse("SpawnFailed")
         \/ p # NoProgram /\ parse_banner(p) = {}
               /\ Refuse("VersionProbeFailed")
         \/ \E b \in parse_banner(p) :
              \/ ~can_create(b) /\ Refuse("WrongBinary")
              \/ can_create(b) /\ ~Supported(b)
                    /\ Refuse("UnsupportedVersion")
              \/ can_create(b) /\ Supported(b)
                    /\ To("recheck") /\ UNCHANGED returned
    /\ swapped' = FALSE
    /\ UNCHANGED <<world, creator, child>>

\* The destination is not looked at again.
Trusting ==
    /\ pc = "recheck" /\ To("run")
    /\ UNCHANGED <<world, creator, child, swapped, returned>>

\* A second look: the probe ran a whole child process since the first.
OutputStillFree ==
    /\ pc = "recheck"
    /\ IF exists THEN Refuse("OutputExists")
       ELSE To("run") /\ UNCHANGED returned
    /\ UNCHANGED <<world, creator, child, swapped>>

run ==
    /\ pc = "run"
    /\ LET p == binaries[creator.exe] IN
         \/ p = NoProgram /\ Refuse("SpawnFailed") /\ UNCHANGED child
         \/ /\ p # NoProgram /\ To("child") /\ UNCHANGED returned
            /\ child' = [NoChild EXCEPT !.program = p]
    /\ UNCHANGED <<world, creator, swapped>>

\* rar goes over the sources; it may end at any moment, by itself or
\* killed, and what it wrote until then may stay.  It writes into the file
\* it finds at the output path, or creates one.
Archived(s) ==
    [by |-> IF out.by = "nobody" THEN "child" ELSE out.by,
     holds |-> out.holds \union {s}, spoiled |-> out.by = "other"]

NamedSources == {creator.entries[i] : i \in DOMAIN creator.entries}

ChildAdds ==
    /\ pc = "child" /\ child.code = "running"
    /\ \E s \in (NamedSources \intersect present) \ child.made :
         /\ child' = [child EXCEPT !.made = @ \union {s}]
         /\ out' = Archived(s)
    /\ UNCHANGED <<binaries, present, touched, meddles, dirs, pc, creator,
                   swapped, returned>>

ChildEnds ==
    /\ pc = "child" /\ child.code = "running"
    /\ \E code \in {"success", "warning", "error", "none"} :
         /\ code = "success" => child.made = NamedSources
         /\ code = "warning" => child.made \intersect present # NamedSources
         /\ child' = [child EXCEPT !.code = code]
    /\ To("classify")
    /\ UNCHANGED <<world, creator, swapped, returned>>

\* A warning taken for a success with remarks.
is_successLenient(code) == code \in {"success", "warning"}

is_success(code) == code = "success"

Classify ==
    /\ pc = "classify"
    /\ IF is_success(child.code) THEN To("verify") /\ UNCHANGED returned
       ELSE Refuse("CommandFailed")
    /\ UNCHANGED <<world, creator, child, swapped>>

Verify ==
    /\ pc = "verify"
    /\ Refuse(IF exists THEN "Ok" ELSE "OutputMissing")
    /\ UNCHANGED <<world, creator, child, swapped>>

-----------------------------------------------------------------------------
\* Other processes: they install and remove programs, delete sources, put a
\* file at the output path or take one away.

PastLastLook == pc \in {"run", "child", "classify", "verify"}

Meddle ==
    /\ meddles < MaxChanges /\ pc # "done" /\ meddles' = meddles + 1
    /\ \/ /\ \E place \in Places, p \in Programs \union {NoProgram} :
               /\ binaries' = [binaries EXCEPT ![place] = p]
               /\ swapped' = (swapped \/ place = creator.exe)
          /\ UNCHANGED <<present, out, touched>>
       \/ /\ \E s \in present : present' = present \ {s}
          /\ UNCHANGED <<binaries, out, touched, swapped>>
       \/ /\ out' = IF exists THEN NoOutput ELSE OthersFile
          /\ touched' = (touched \/ PastLastLook)
          /\ UNCHANGED <<binaries, present, swapped>>
    /\ UNCHANGED <<dirs, pc, creator, child, returned>>

RarNext ==
    \/ New \/ vet_program \/ assemble \/ Add \/ set_password
    \/ build \/ OutputFree \/ probe_binary \/ OutputStillFree \/ run
    \/ ChildAdds \/ ChildEnds \/ Classify \/ Verify \/ Meddle

RarSpec == RarInit /\ [][RarNext]_rarVars

-----------------------------------------------------------------------------
\* Properties.

\* The types; rar adds nothing the creator did not name.
RarTypeOK ==
    /\ binaries \in [Places -> Programs \union {NoProgram}]
    /\ present \subseteq Sources /\ child.made \subseteq NamedSources
    /\ creator.exe \in Places \union {"none"}
    /\ pc = "done" <=> returned # "none"

\* Ok is said only when every named source went in, also when a source was
\* deleted between its add and the run: the warning rar then ends with is
\* not a success.  The file that stands at the output path is then one rar
\* created, and holds those sources and nothing else, unless somebody put it
\* there or took one away after the last look at the path.
OkMeansWhole ==
    returned = "Ok" =>
        /\ child.made = NamedSources /\ NamedSources # {}
        /\ ~touched => out.by = "child" /\ out.holds = NamedSources

\* rar writes into another's file only when something was put at the output
\* path after the last look at it; the probe is no part of that window.
OthersSpared == out.spoiled => touched

\* The argument vector, whose "--" only rar from 5.0 on obeys, is handed to
\* such a program, unless it was changed after it had named itself.
DrivenIsIdentified ==
    child # NoChild /\ ~swapped =>
        /\ child.program.flavor = "rar" /\ child.program.major >= 5
        /\ creator.password \notin {"empty", "control", "nul"}

\* A run of rar is of the program that was identified, with a password it can
\* take, and leaves alone what others had put in place before it.
RunIsSound == RarTypeOK /\ DrivenIsIdentified /\ OthersSpared
=============================================================================
