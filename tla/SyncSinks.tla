----------------------------- MODULE SyncSinks -----------------------------
(***************************************************************************)
(* A sink used from blocking code: SyncSinkAdapter runs the sink's         *)
(* coroutines on a portal, an event loop in a thread of its own. A blocked *)
(* caller can be interrupted (KeyboardInterrupt) while the coroutine goes  *)
(* on: inside the with block close then runs beside the write; out of      *)
(* __enter__ the open goes on and nobody closes what it opens.             *)
(* Asynchronous use of the sink is the behaviour with sync = FALSE.        *)
(***************************************************************************)
EXTENDS Sinks

VARIABLES
  sync,    \* the sink is used through an adapter
  own,     \* the adapter started its portal itself
  adapter, \* where the adapter's with block is
  loop     \* the portal runs

wrapper == <<own, adapter, loop>>
allVars == <<vars, sync, wrapper>>

SyncInit ==
  /\ Init
  /\ sync \in BOOLEAN
  /\ own \in (IF sync THEN BOOLEAN ELSE {FALSE})
  /\ adapter = "unused"
  /\ loop = (sync /\ ~own)

\* __enter__: start the portal and call the sink's open.
Enter ==
  /\ sync /\ adapter = "unused"
  /\ adapter' = "entering"
  /\ loop' = TRUE
  /\ Open
  /\ UNCHANGED <<sync, own>>

\* open returned, or raised: then the portal is stopped and close is not called.
Entered ==
  /\ adapter = "entering" /\ pc = "idle"
  /\ \/ /\ handle = "open" /\ "introspect" \notin scars
        /\ adapter' = "inside" /\ UNCHANGED loop
     \/ /\ handle = "none" \/ "introspect" \in scars
        /\ adapter' = "left" /\ loop' = ~own
  /\ UNCHANGED <<vars, sync, own>>

\* A blocking call on the portal, made inside the with block.
Blocking == sync /\ adapter = "inside" /\ Call /\ UNCHANGED <<sync, wrapper>>

\* The coroutine under way takes a step, whether or not its caller still waits.
Running == (sync => loop) /\ Step /\ UNCHANGED <<sync, wrapper>>

\* The caller is interrupted while it waits for write_many, or in __enter__ before open
\* has given it the sink.
Interrupt ==
  /\ sync
  /\ \/ adapter = "inside" /\ pc \notin {"idle", "introspect"} /\ adapter' = "interrupted"
     \/ adapter = "entering" /\ adapter' = "abandoned"
  /\ UNCHANGED <<vars, sync, own, loop>>

\* The interrupt leaves __enter__: the exit stack waits on a portal of its own for the
\* open, whose handle stays.
Abandoned ==
  /\ adapter = "abandoned"
  /\ own => pc = "idle"
  /\ adapter' = "dropped"
  /\ loop' = ~own
  /\ UNCHANGED <<vars, sync, own>>

\* Mutant: the portal stops before its tasks have ended.
ExitedAtOnce ==
  /\ adapter = "exiting"
  /\ adapter' = "left"
  /\ loop' = ~own
  /\ UNCHANGED <<vars, sync, own>>

\* __exit__: the sink's close, beside a write that was left running.
Exit ==
  /\ adapter \in {"inside", "interrupted"}
  /\ pc = "idle" \/ (adapter = "interrupted" /\ kind \in Databases) \* the others do not await
  /\ CASE handle = "open" -> CloseHandle
       [] handle = "dead" -> CloseDead
       [] OTHER -> UNCHANGED vars
  /\ adapter' = "exiting"
  /\ UNCHANGED <<sync, own, loop>>

\* The portal of its own ends when no task is left on it.
Exited ==
  /\ adapter = "exiting"
  /\ own => pc = "idle"
  /\ adapter' = "left"
  /\ loop' = ~own
  /\ UNCHANGED <<vars, sync, own>>

Direct == ~sync /\ Call /\ UNCHANGED <<sync, wrapper>>

Killed ==
  /\ Crash
  /\ adapter' = "unused" /\ loop' = (sync /\ ~own)
  /\ UNCHANGED <<sync, own>>

SyncNext ==
  \/ Enter \/ Entered \/ Blocking \/ Running \/ Interrupt \/ Abandoned
  \/ Exit \/ Exited \/ Direct \/ Killed

SyncSpec == SyncInit /\ [][SyncNext]_allVars

----------------------------------------------------------------------------
(* Nothing of the sink ever runs on a portal that has stopped, and when    *)
(* __exit__ or an __enter__ whose open raised is over, the sink has let go *)
(* of its handle. Exceptions: an __enter__ that is interrupted (adapter =  *)
(* "dropped") leaves the handle that its open gets or got; __enter__ does  *)
(* not close a postgres sink whose open raised after its pool was up; and  *)
(* a close that raises may leave a file sink with its handle.              *)
LeftIsQuiet ==
  sync =>
    /\ pc # "idle" => loop
    /\ (adapter = "left" /\ handle # "none") =>
         \/ kind = "postgres" /\ "introspect" \in scars
         \/ kind \in {"csv", "jsonl"} /\ handle = "dead"
         \/ kind = "parquet" /\ "closed" \in scars
=============================================================================
