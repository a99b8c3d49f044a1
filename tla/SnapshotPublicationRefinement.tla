-------------------- MODULE SnapshotPublicationRefinement --------------------
(* SnapshotPublication implements ActionSnapshot: a reader who restores the *)
(* published snapshot gets it, or is refused when an object of its bundle   *)
(* does not hash as its entry says.                                         *)
EXTENDS SnapshotPublication

refused == [end |-> 0, filings |-> MaxFilings + 1]

restored ==
    IF pointer = NoVersion \/ \A f \in FilesOf(pointer) : Intact(pointer, f)
    THEN pointer ELSE refused

Snapshot == INSTANCE ActionSnapshot
            WITH durable <- filings, current <- pointer, answer <- restored,
                 serial <- ~overlapped

(* Every step of the publishing, inheriting, restoring and warming tasks is *)
(* a step of the published snapshot or changes nothing a reader sees: it    *)
(* covers ever more and rests on durable filings only, and while tasks      *)
(* follow each other it appears whole and stays as it is                    *)
(* (_publish_generated_snapshot, _put_immutable_snapshot_object).           *)
ImplementsActionSnapshot == Snapshot!Spec

=============================================================================
