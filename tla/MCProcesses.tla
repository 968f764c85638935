---------------------------- MODULE MCProcesses ----------------------------
(***************************************************************************)
(* Small instances of the two child processes, the ingest process and the  *)
(* decoder, each with its handle in the main process.  They meet only at   *)
(* the spool (Spool.tla), so a behaviour exercises one of them; the        *)
(* variable that tells them apart never changes.  The ingest process has   *)
(* two versions of the allowlist, the second without the source of the     *)
(* second datagram.                                                        *)
(***************************************************************************)
EXTENDS Decoder, Ingest

VARIABLE part

MCAdmits == <<Data, Data \ {2}>>

mcVars == <<vars, ingestVars, part>>

MCInit == part \in {"decoder", "ingest"} /\ Init /\ IngestInit

Decoding(action) == part = "decoder" /\ action /\ UNCHANGED <<ingestVars, part>>
Ingesting(action) == part = "ingest" /\ action /\ UNCHANGED <<vars, part>>

MCNext == Decoding(Next) \/ Ingesting(IngestNext)

(* FairSpec of Decoder and IngestFairSpec of Ingest. *)
MCSpec ==
    /\ MCInit /\ [][MCNext]_mcVars
    /\ WF_mcVars(Decoding(PumpStep))
    /\ \A t \in 1 .. MaxThreads :
          WF_mcVars(Decoding(t \in DOMAIN threads /\ (Trip(t) \/ Restart(t))))
    /\ \A p \in 1 .. MaxThreads : WF_mcVars(Decoding(p \in DOMAIN procs /\ Serve(p)))
    /\ WF_mcVars(Ingesting(WorkerReady)) /\ WF_mcVars(Ingesting(Receive))
    /\ WF_mcVars(Ingesting(Control)) /\ WF_mcVars(Ingesting(Flush))
    /\ WF_mcVars(Ingesting(WorkerExit)) /\ WF_mcVars(Ingesting(SpoolGroup))
    /\ WF_mcVars(Ingesting(SpoolNotice)) /\ WF_mcVars(Ingesting(ReaderStep))
    /\ WF_mcVars(Ingesting(LoopStep))

(* Each process applies what an administrator set last, the datagrams it   *)
(* admits and the versions and users it decodes, whenever it was started   *)
(* again and whatever was set meanwhile.                                   *)
LatestApplied == PolicyApplied /\ AllowlistApplied

=============================================================================
