-------------------------------- MODULE Serve --------------------------------
(***************************************************************************)
(* `sitka serve` from its configuration file to its exit code, with the    *)
(* requests it serves and a `sitka watch` that follows them.               *)
(*                                                                         *)
(*   cli/serve.go   newServeCommand, serve                                 *)
(*   cli/root.go    Execute, load, logger                                  *)
(*                                                                         *)
(* net/http and os/signal are modelled from how they are used.  Shutdown   *)
(* closes the listener and looks again and again whether a connection is   *)
(* still in use; one that was accepted and has sent nothing yet counts as   *)
(* such for a while, and its request is served if it comes.  A signal that *)
(* nobody asked to be notified of ends the process.                        *)
(*                                                                         *)
(* Requests here answer the client and end in their own time; the watch     *)
(* handler ends when its client has gone, and only then.  The broker is     *)
(* reduced to the queue of this watcher, which is never full.               *)
(***************************************************************************)
EXTENDS Config, WatchClient

CONSTANTS
  Files,       \* configuration files
  Grace,       \* shutdownTimeout
  MaxSignals,  \* bound on the signals sent to the process
  None         \* no exit code yet

ASSUME ServeAssumption ==
  /\ Files \subseteq File
  /\ Grace \in Nat /\ MaxSignals \in Nat
  /\ None \notin {"success", "failure", "killed"}

VARIABLES
  file,       \* the configuration file
  levelOK,    \* --log-level names a level
  pc,         \* of serve: "load", "build", "select", "shutdown" or "exited"
  exit,       \* how the process ended: "success" (0), "failure" (1) or "killed"
  listener,   \* of the goroutine: "off", "listening", "failed" or "closed"
  notified,   \* NotifyContext is in force
  signals,    \* sent so far
  cancelled,  \* the context of NotifyContext is done
  waited,     \* the time since Shutdown was called
  rpc,        \* each request: "new", "accepted", "serving", "done" or "cut"
  queue       \* events published and not yet written to the watcher

process == <<file, levelOK, pc, exit, listener>>
signal  == <<notified, signals, cancelled, waited>>
vars    == <<process, signal, rpc, queue, watchVars>>

\* A request is named by the event that reports it.
Requests == Events

Init ==
  /\ file \in Files
  /\ levelOK \in BOOLEAN
  /\ pc = "load"
  /\ exit = None
  /\ listener = "off"
  /\ notified = FALSE
  /\ signals = 0
  /\ cancelled = FALSE
  /\ waited = 0
  /\ rpc = [r \in Requests |-> "new"]
  /\ queue = <<>>
  /\ WatchInit

-----------------------------------------------------------------------------

Running == pc # "exited"

\* The process is gone, and with it every connection.
Exits(code) ==
  /\ pc' = "exited"
  /\ exit' = code
  /\ listener' = "closed"
  /\ rpc' = [r \in Requests |-> IF rpc[r] \in {"accepted", "serving"} THEN "cut" ELSE rpc[r]]
  /\ queue' = <<>>
  /\ Severed
  /\ UNCHANGED <<file, levelOK, signal>>

Unwatched == <<queue, watchVars>>

LoadConfig ==
  /\ pc = "load"
  /\ IF Loads(file) /\ levelOK
     THEN pc' = "build" /\ UNCHANGED <<file, levelOK, exit, listener, signal, rpc, Unwatched>>
     ELSE Exits("failure")

\* NotifyContext, and the goroutine is started.
Build ==
  /\ pc = "build"
  /\ IF Builds(Load(file))
     THEN /\ pc' = "select"
          /\ notified' = TRUE
          /\ UNCHANGED <<file, levelOK, exit, listener, signals, cancelled, waited, rpc, Unwatched>>
     ELSE Exits("failure")

\* ListenAndServe; after Shutdown it returns at once.
Listen ==
  /\ pc = "select"
  /\ listener = "off"
  /\ listener' \in {"listening", "failed"}
  /\ UNCHANGED <<file, levelOK, pc, exit, signal, rpc, Unwatched>>

AcceptFails ==
  /\ pc = "select"
  /\ listener = "listening"
  /\ listener' = "failed"
  /\ UNCHANGED <<file, levelOK, pc, exit, signal, rpc, Unwatched>>

\* case err := <-errCh
ReturnError ==
  /\ pc = "select"
  /\ listener = "failed"
  /\ Exits("failure")

\* case <-ctx.Done(): stop, and Shutdown is called.
ShutDown ==
  /\ pc = "select"
  /\ cancelled
  /\ notified' = FALSE
  /\ pc' = "shutdown"
  /\ listener' = "closed"
  /\ UNCHANGED <<file, levelOK, exit, signals, cancelled, waited, rpc, Unwatched>>

Pass ==
  /\ pc = "shutdown"
  /\ waited < Grace
  /\ waited' = waited + 1
  /\ UNCHANGED <<process, notified, signals, cancelled, rpc, Unwatched>>

InUse == (\E r \in Requests : rpc[r] \in {"accepted", "serving"}) \/ conn = "open"

\* Slip: what Shutdown returns is dropped.
ShutdownTimesOutQuietly ==
  /\ pc = "shutdown"
  /\ waited = Grace
  /\ Exits("success")

\* Slip: Shutdown is given the context that the signal cancelled.
ShutdownTimesOutAtOnce ==
  /\ pc = "shutdown"
  /\ Exits("failure")

\* Slip: Shutdown is given a context without a deadline.
ShutdownWaits ==
  /\ pc = "shutdown"
  /\ waited = Grace
  /\ ~InUse
  /\ Exits("failure")

\* The deadline may pass before Shutdown has seen the last connection close.
ShutdownTimesOut ==
  /\ pc = "shutdown"
  /\ waited = Grace
  /\ Exits("failure")

ShutdownDone ==
  /\ pc = "shutdown"
  /\ ~InUse
  /\ Exits("success")

-----------------------------------------------------------------------------
(* Requests.                                                               *)

Goes(r, from, to) ==
  /\ Running
  /\ rpc[r] = from
  /\ rpc' = [rpc EXCEPT ![r] = to]
  /\ UNCHANGED <<process, signal>>

Accept(r) ==
  /\ listener = "listening"
  /\ Goes(r, "new", "accepted")
  /\ UNCHANGED Unwatched

Arrive(r) ==
  /\ Goes(r, "accepted", "serving")
  /\ UNCHANGED Unwatched

\* A connection on which nothing came is closed, by either side.
CloseUnused(r) ==
  /\ Goes(r, "accepted", "done")
  /\ UNCHANGED Unwatched

\* The handler returns, and observe publishes its event.
Finish(r) ==
  /\ Goes(r, "serving", "done")
  /\ queue' = IF conn = "open" THEN Append(queue, r) ELSE queue
  /\ UNCHANGED watchVars

-----------------------------------------------------------------------------
(* The watcher.                                                            *)

Dial ==
  /\ wpc = "new"
  /\ IF listener = "listening" /\ Running THEN Dialled ELSE DialFails
  /\ UNCHANGED <<process, signal, rpc, queue>>

\* Slip: a frame is not flushed.
WriteEventBuffered ==
  /\ Running
  /\ conn = "open"
  /\ queue # <<>>
  /\ queue' = Tail(queue)
  /\ written' = Append(written, Head(queue))
  /\ UNCHANGED <<process, signal, rpc, client, conn, wire>>

\* handleWatch: the next event of its channel is encoded.
WriteEvent ==
  /\ Running
  /\ conn = "open"
  /\ queue # <<>>
  /\ queue' = Tail(queue)
  /\ Written(Head(queue))
  /\ UNCHANGED <<process, signal, rpc>>

\* The watch command has ended, and the handler notices.
WatcherLeaves ==
  /\ Running
  /\ conn = "open"
  /\ wpc = "failed"
  /\ Severed
  /\ queue' = <<>>
  /\ UNCHANGED <<process, signal, rpc>>

Read == Watching /\ UNCHANGED <<process, signal, rpc, queue>>
Abandon == Quit /\ UNCHANGED <<process, signal, rpc, queue>>

-----------------------------------------------------------------------------
(* Signals.                                                                *)

Send(caught) ==
  /\ Running
  /\ signals < MaxSignals
  /\ notified = caught

Interrupt ==
  /\ Send(TRUE)
  /\ signals' = signals + 1
  /\ cancelled' = TRUE
  /\ UNCHANGED <<process, notified, waited, rpc, Unwatched>>

\* The process dies where it stands.
Kill ==
  /\ Send(FALSE)
  /\ pc' = "exited"
  /\ exit' = "killed"
  /\ listener' = "closed"
  /\ signals' = signals + 1
  /\ rpc' = [r \in Requests |-> IF rpc[r] \in {"accepted", "serving"} THEN "cut" ELSE rpc[r]]
  /\ queue' = <<>>
  /\ Severed
  /\ UNCHANGED <<file, levelOK, notified, cancelled, waited>>

Starting == LoadConfig \/ Build
Serving == Listen \/ ReturnError \/ ShutDown
Ending == Pass \/ ShutdownTimesOut \/ ShutdownDone
Handling(r) == Arrive(r) \/ CloseUnused(r) \/ Finish(r)

Next ==
  \/ Starting \/ Serving \/ Ending
  \/ AcceptFails \/ Interrupt \/ Kill
  \/ \E r \in Requests : Accept(r) \/ Handling(r)
  \/ Dial \/ WriteEvent \/ WatcherLeaves \/ Read \/ Abandon

Spec == Init /\ [][Next]_vars

\* The goroutines of the process run, time passes, and a watcher reads what it
\* gets.  Nothing is assumed of the requests, nor that a watcher ever leaves.
FairSpec ==
  Spec /\ WF_vars(Starting) /\ WF_vars(Serving) /\ WF_vars(Ending) /\ WF_vars(WriteEvent) /\ WF_vars(Read)

-----------------------------------------------------------------------------
(* Properties.                                                             *)

TypeOK ==
  /\ file \in Files
  /\ levelOK \in BOOLEAN
  /\ pc \in {"load", "build", "select", "shutdown", "exited"}
  /\ exit \in {None, "success", "failure", "killed"}
  /\ listener \in {"off", "listening", "failed", "closed"}
  /\ notified \in BOOLEAN /\ cancelled \in BOOLEAN
  /\ signals \in 0 .. MaxSignals
  /\ waited \in 0 .. Grace
  /\ rpc \in [Requests -> {"new", "accepted", "serving", "done", "cut"}]
  /\ queue \in Seq(Events)
  /\ WatchTypeOK

CutOff == {r \in Requests : rpc[r] = "cut"}

\* Exit code 0 says that the gateway was asked to stop and that it cut off
\* neither a reply nor a watcher.
CleanExit == exit = "success" => cancelled /\ CutOff = {} /\ wpc # "read"

\* A first signal leaves replies all of shutdownTimeout to finish: one is cut
\* off later than that, or by a second signal, or because the listener failed.
CutHasCause ==
  CutOff # {} => \/ waited = Grace
                 \/ exit = "killed" /\ signals > 1
                 \/ exit = "failure" /\ notified

\* A configuration file that was accepted is one the gateway starts with: it
\* stops before it listens only if the file or the log level is refused or a
\* signal comes.
LoadedIsBuilt == (exit = "failure" /\ ~notified /\ ~cancelled) => ~Loads(file) \/ ~levelOK

\* A gateway that was asked to stop does, whatever its requests and watchers do.
Stops == cancelled ~> ~Running

\* A watch command does not outlive the gateway it follows.
WatchEnds == (wpc = "read" /\ ~Running) ~> wpc = "failed"

\* What is written to a watcher is printed, in the end, unless the connection
\* is cut or the watch command has ended.
Prints == \A e \in Events : e \in ToSet(written) ~> (e \in ToSet(printed) \/ conn = "cut" \/ wpc = "failed")
=============================================================================
