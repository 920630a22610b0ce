--------------------------- MODULE MCUnrarHandle ---------------------------
(* Instances of UnrarHandle for TLC: archives of up to four headers, over   *)
(* up to two volumes, each with a chain of raw blocks.                      *)
EXTENDS UnrarHandle, TLC

Part(name, kind, size, units, vol) ==
    [name |-> name, kind |-> kind, size |-> size, units |-> units,
     vol |-> vol, before |-> FALSE, after |-> FALSE, damaged |-> FALSE]
File(name, n) == Part(name, "file", n, n, 1)

Block_(kind, extra, data) ==
    [kind |-> kind, extra |-> extra, data |-> data, sound |-> TRUE,
     legible |-> TRUE, percent |-> IF kind = "recovery" THEN 5 ELSE 0]

Chain == <<Block_("main", 2, 0), Block_("file", 4, 3),
           Block_("recovery", 8, 4), Block_("end", 0, 0)>>
Bytes(rar5, blocks) ==
    LET basic == IF rar5 THEN 5 ELSE 7
    IN (IF rar5 THEN 8 ELSE 7)
       + MapThenSumSet(LAMBDA j : basic + blocks[j].extra + blocks[j].data,
                       DOMAIN blocks)
Raw(rar5, blocks, cut) ==
    [rar5 |-> rar5, blocks |-> blocks, length |-> Bytes(rar5, blocks) - cut]

Commented == <<Block_("main", 2, 0), Block_("service", 3, 2)>>
             \o SubSeq(Chain, 2, 4)
Spoilt == [Chain EXCEPT ![2].sound = FALSE]
Giving(p) == [Chain EXCEPT ![3].percent = p]
Illegible == [Commented EXCEPT ![4].legible = FALSE]

A(inode, headers, raw) ==
    [id |-> [inode |-> inode, len |-> raw.length], headers |-> headers,
     raw |-> raw]

Split == <<[Part("v", "file", 2, 1, 1) EXCEPT !.after = TRUE],
           [Part("v", "file", 2, 1, 2) EXCEPT !.before = TRUE]>>
Plain == <<File("a", 1), File("b", 2)>>

SomeFiles ==
    { A(1, Plain, Raw(TRUE, Giving(1000), 0)),
      A(1, Plain \o <<File("c", 1)>>, Raw(TRUE, Commented, 0)),
      A(2, <<File("a", 2)>>, Raw(FALSE, Giving(250), 0)),
      A(3, Split \o <<Part("tail", "file", 1, 1, 2)>>,
           Raw(FALSE, Chain, 26)),
      A(4, <<Part("d", "dir", 0, 0, 1), Part("l", "link", 1, 1, 1),
             Part("over", "file", 1, 2, 1)>>, Raw(TRUE, Spoilt, 0)),
      A(5, <<[File("x", 1) EXCEPT !.damaged = TRUE]>> \o Split,
           Raw(TRUE, Chain, 20)),
      A(6, <<[File("x", 1) EXCEPT !.damaged = TRUE], File("b", 1)>>,
           Raw(FALSE, Illegible, 2)),
      A(7, <<[File("v", 2) EXCEPT !.before = TRUE], File("b", 1)>>,
           Raw(FALSE, Giving(0), 0)) }

Single(op, target, cap) == [op |-> op, target |-> target, cap |-> cap,
                            budget |-> {}]
Bulk(selection, cap, total, progress) ==
    [op |-> "extract_all", selection |-> selection, cap |-> cap,
     total |-> total, progress |-> progress, budget |-> {}]

RecoveryCalls ==
    { [op |-> "recovery", flagged |-> TRUE, encrypted |-> e] : e \in BOOLEAN }

SomeCalls ==
    { [op |-> "list", budget |-> {}], [op |-> "list", budget |-> {1}],
      Bulk(1..3, {}, {}, TRUE), Bulk({2}, {}, {}, FALSE),
      Bulk(1..3, {1}, {}, FALSE), Bulk(1..3, {}, {2}, FALSE),
      Single("extract_file", 2, {}), Single("memory", 2, {1}),
      Single("memory", 1, {}), Single("memory", 3, {}),
      Single("sink", 1, {}), Single("sink", 3, {}),
      [op |-> "integrity"] } \cup RecoveryCalls
=============================================================================
