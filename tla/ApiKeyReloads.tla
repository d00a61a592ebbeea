--------------------------- MODULE ApiKeyReloads ----------------------------
(***************************************************************************)
(* Reload beside mutations.  Reload reads the table and installs what it   *)
(* read without mutationMu, so that a mutation may commit and publish in   *)
(* between, and the snapshot may lag behind the table until the next one   *)
(* publishes.  Two history variables say how far: they record tables and   *)
(* change nothing that the service does.                                   *)
(***************************************************************************)
EXTENDS ApiKeyProperties

VARIABLES
  read,  \* the tables there have been since each Reload read one
  shown  \* the tables there have been since whoever installed the snapshot
         \* read it, or committed it

history == <<read, shown>>

\* Reloads whose call ends with this step.
Finished == {r \in Reloaders : reload[r].pc = "publish" /\ reload'[r].pc = "idle"}

\* A mutation published what it committed, or NewService what it listed.
PublishedItsOwn ==
  \/ proc # "up"
  \/ \E a \in Admins : op[a].pc = "publish" /\ op'[a].pc = "idle"

Remember ==
  /\ read' = [r \in Reloaders |->
                IF reload'[r].pc = "idle" THEN {rows'} ELSE read[r] \cup {rows'}]
  /\ shown' = IF Finished # {} THEN UNION {read[r] : r \in Finished}
              ELSE IF PublishedItsOwn THEN {rows'}
              ELSE shown \cup {rows'}

HistoryInit == Init /\ read = [r \in Reloaders |-> {rows}] /\ shown = {rows}

HistorySpec == HistoryInit /\ [][Next /\ Remember]_<<vars, history>>

\* With the fairness of FairSpec.
FairHistorySpec == HistorySpec /\ \A a \in Admins : SF_vars(MutationStep(a))

\* While the service runs, the snapshot is one whole reading of one table, never a
\* mixture of two or a part of one ("no half-written data", the comment on
\* Service.Reload), and not of a table that was gone before the Reload that
\* installed it had read, or the mutation that published it had committed:
\* a mutation that no Reload overlaps leaves exactly its own table.
SnapshotIsOneReading ==
  (proc = "up" /\ closing # "closed")
    => \E table \in shown, t \in 0 .. clock : snapshot = ListActive(table, t)
=============================================================================
