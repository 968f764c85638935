------------------------------ MODULE TrapLog -------------------------------
(***************************************************************************)
(* What the trap path promises, with no queue, batch, transaction, replay  *)
(* or cache in sight: traps form a log, each one is settled once, in the   *)
(* order of the log, with the outcome its own content calls for, and only  *)
(* a power cut takes settled traps back, never one whose bytes are gone.   *)
(* README.md of the repository: "No accepted trap is lost to a slow model  *)
(* or a restart"; ingest/spool.py: "nothing is classified twice or         *)
(* skipped".                                                               *)
(***************************************************************************)
EXTENDS Naturals

CONSTANTS Seqs,       \* the positions of the log, 1 .. some bound
          KindChoices \* the contents considered

VARIABLES
    kind,     \* what each record is
    spooled,  \* the last record accepted
    settled,  \* the last record settled
    deleted,  \* every record up to this one is gone from disk
    outcome   \* what became of each record

logVars == <<kind, spooled, settled, deleted, outcome>>

(* The outcome a record's own content calls for.                           *)
Fate(k) == CASE k = "event" -> "classified"
             [] k = "ignored" -> "nothing"
             [] k \in {"poison", "invalid"} -> "aside"

LogInit ==
    /\ kind \in KindChoices
    /\ spooled = 0 /\ settled = 0 /\ deleted = 0
    /\ outcome = [s \in Seqs |-> "waiting"]

Accept ==
    /\ spooled' = spooled + 1 /\ spooled' \in Seqs
    /\ UNCHANGED <<kind, settled, deleted, outcome>>

SettledTo(m) == [s \in Seqs |-> IF s <= m THEN Fate(kind[s]) ELSE "waiting"]

(* One commit settles the next records of the log, all of them or none.    *)
Settle ==
    /\ settled' > settled /\ settled' <= spooled
    /\ outcome' = SettledTo(settled')
    /\ UNCHANGED <<kind, spooled, deleted>>

(* What is settled may be deleted.                                         *)
Delete ==
    /\ deleted' > deleted /\ deleted' <= settled
    /\ UNCHANGED <<kind, spooled, settled, outcome>>

(* A power cut may take settled records back, if they are still on disk.   *)
TakeBack ==
    /\ settled' < settled /\ settled' >= deleted
    /\ outcome' = SettledTo(settled')
    /\ UNCHANGED <<kind, spooled, deleted>>

LogNext == Accept \/ Settle \/ Delete \/ TakeBack

LogSpec == LogInit /\ [][LogNext]_logVars
=============================================================================
