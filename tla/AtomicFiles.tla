---------------------------- MODULE AtomicFiles ----------------------------
(***************************************************************************)
(* What saving a workbook promises about the files: a file always holds    *)
(* one whole content, what a power failure may bring back is one of the    *)
(* whole contents it held since its last settled one, and a settled file   *)
(* keeps its content.  How bytes get into a file is not part of the        *)
(* promise.                                                                *)
(***************************************************************************)
CONSTANTS Path, Content, NoFile

VARIABLES
  visible,   \* what a reader of the file sees
  possible   \* what it may see after a power failure

Init ==
  /\ visible \in [Path -> Content \cup {NoFile}]
  /\ possible = [p \in Path |-> {visible[p]}]

Put(p, c) ==
  /\ visible' = [visible EXCEPT ![p] = c]
  /\ possible' = [possible EXCEPT ![p] = @ \cup {c}]

Settle(p) == possible' = [possible EXCEPT ![p] = {visible[p]}] /\ UNCHANGED visible

Create(p, c) ==
  /\ visible[p] = NoFile
  /\ visible' = [visible EXCEPT ![p] = c]
  /\ possible' = [possible EXCEPT ![p] = {c}]

PowerFailure ==
  /\ visible' \in [Path -> Content \cup {NoFile}]
  /\ \A p \in Path : visible'[p] \in possible[p]
  /\ possible' = [p \in Path |-> {visible'[p]}]

Next ==
  \/ \E p \in Path : Settle(p) \/ \E c \in Content : Put(p, c) \/ Create(p, c)
  \/ PowerFailure

Spec == Init /\ [][Next]_<<visible, possible>>
=============================================================================
