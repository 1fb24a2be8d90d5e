----------------------------- MODULE LogStreams -----------------------------
(***************************************************************************)
(* Following the log of a pod (GetPodLogs, GetSparkAppLogs with follow):   *)
(* a goroutine scans the stream of the kubelet and hands line after line   *)
(* to the handler over an unbuffered channel, which writes them to the     *)
(* client.  Both watch the context of the request, which ends when the     *)
(* client leaves and when the handler returns.  The code is the same in    *)
(* both handlers.                                                          *)
(***************************************************************************)
EXTENDS Naturals, Sequences

CONSTANT MaxLines  \* bound on the lines of the log

ASSUME LogStreamsAssumption == MaxLines \in Nat

VARIABLES
  pod,      \* the log: lines written, and how the stream ended
  scanner,  \* the goroutine
  handler,  \* the loop of the handler
  chans,    \* the channel lines closed or not, what scanErr holds
  ctxDone,  \* the context of the request has ended
  sent      \* what the client got

logVars == <<pod, scanner, handler, chans, ctxDone, sent>>

(* What is written to the client: line number n, or the event "error". *)
ErrorEvent == 0

LogTypeOK ==
  /\ pod \in [lines : 0..MaxLines, end : {"open", "eof", "error"}]
  /\ scanner \in [pc : {"scan", "send", "err", "close", "done"}, read : 0..MaxLines,
                  err : BOOLEAN]
  /\ handler \in {"serve", "ended", "left"}
  /\ chans \in [closed : BOOLEAN, scanErr : {"none", "nil", "error"}]
  /\ ctxDone \in BOOLEAN
  /\ \A i \in DOMAIN sent : sent[i] \in 0..MaxLines

LogInit ==
  /\ pod = [lines |-> 0, end |-> "open"]
  /\ scanner = [pc |-> "scan", read |-> 0, err |-> FALSE]
  /\ handler = "serve"
  /\ chans = [closed |-> FALSE, scanErr |-> "none"]
  /\ ctxDone = FALSE
  /\ sent = <<>>

(* The pod writes a line, its log ends, or the stream breaks: the           *)
(* connection is lost or a line exceeds maxLogLineSize.                     *)
PodWrites ==
  /\ pod.end = "open"
  /\ \/ pod.lines < MaxLines /\ pod' = [pod EXCEPT !.lines = @ + 1]
     \/ \E e \in {"eof", "error"} : pod' = [pod EXCEPT !.end = e]
  /\ UNCHANGED <<scanner, handler, chans, ctxDone, sent>>

ClientLeaves ==
  /\ handler = "serve" /\ ~ctxDone
  /\ ctxDone' = TRUE
  /\ UNCHANGED <<pod, scanner, handler, chans, sent>>

(* scanner.Scan: the next line; none when the stream ended or broke, or was  *)
(* closed under the scanner (the context's end and the deferred Close both   *)
(* do that).                                                                 *)
Scan ==
  /\ scanner.pc = "scan"
  /\ \/ scanner.read < pod.lines
        /\ scanner' = [scanner EXCEPT !.pc = "send", !.read = @ + 1]
     \/ scanner.read = pod.lines /\ pod.end # "open"
        /\ scanner' = [scanner EXCEPT !.pc = "err", !.err = pod.end = "error"]
     \/ (ctxDone \/ handler # "serve")
        /\ scanner' = [scanner EXCEPT !.pc = "err", !.err = TRUE]
  /\ UNCHANGED <<pod, handler, chans, ctxDone, sent>>

(* Mutant: the goroutine only ever sends. *)
SendCancelled_Never ==
  /\ scanner.pc = "send" /\ ctxDone /\ scanner.read > MaxLines
  /\ UNCHANGED logVars

(* The select of the goroutine, the context done: it closes lines. *)
SendCancelled ==
  /\ scanner.pc = "send" /\ ctxDone
  /\ scanner' = [scanner EXCEPT !.pc = "done"]
  /\ chans' = [chans EXCEPT !.closed = TRUE]
  /\ UNCHANGED <<pod, handler, ctxDone, sent>>

(* Mutant: the channel is closed before its error is known. *)
ReportScanErr_CloseFirst ==
  /\ scanner.pc \in {"err", "close"}
  /\ scanner' = [scanner EXCEPT !.pc = IF @ = "err" THEN "close" ELSE "done"]
  /\ chans' = IF scanner.pc = "err" THEN [chans EXCEPT !.closed = TRUE]
              ELSE [chans EXCEPT !.scanErr = IF scanner.err THEN "error" ELSE "nil"]
  /\ UNCHANGED <<pod, handler, ctxDone, sent>>

(* Mutant: the channel is left open. *)
ReportScanErr_NoClose ==
  /\ scanner.pc = "err"
  /\ scanner' = [scanner EXCEPT !.pc = "done"]
  /\ chans' = [chans EXCEPT !.scanErr = IF scanner.err THEN "error" ELSE "nil"]
  /\ UNCHANGED <<pod, handler, ctxDone, sent>>

(* After the loop: scanErr <- scanner.Err(), which has room for it, and then *)
(* close(lines).                                                             *)
ReportScanErr ==
  /\ scanner.pc \in {"err", "close"}
  /\ scanner' = [scanner EXCEPT !.pc = IF @ = "err" THEN "close" ELSE "done"]
  /\ chans' = IF scanner.pc = "err"
              THEN [chans EXCEPT !.scanErr = IF scanner.err THEN "error" ELSE "nil"]
              ELSE [chans EXCEPT !.closed = TRUE]
  /\ UNCHANGED <<pod, handler, ctxDone, sent>>

(* The select of the handler, a line: both sides of the channel proceed. *)
ServeLine ==
  /\ handler = "serve" /\ scanner.pc = "send"
  /\ scanner' = [scanner EXCEPT !.pc = "scan"]
  /\ sent' = Append(sent, scanner.read)
  /\ UNCHANGED <<pod, handler, chans, ctxDone>>

(* lines is closed: the handler takes the error if there is one, and ends.  *)
ServeEnd ==
  /\ handler = "serve" /\ chans.closed
  /\ handler' = "ended"
  /\ sent' = IF chans.scanErr = "error" THEN Append(sent, ErrorEvent) ELSE sent
  /\ chans' = [chans EXCEPT !.scanErr = "none"]
  /\ UNCHANGED <<pod, scanner, ctxDone>>

(* The context is done, or a keep-alive cannot be written: the handler      *)
(* returns, and net/http ends the context of the request.                   *)
Leave ==
  /\ handler = "serve"
  /\ handler' = "left"
  /\ UNCHANGED <<pod, scanner, chans, ctxDone, sent>>

CancelContext ==
  /\ handler # "serve" /\ ~ctxDone
  /\ ctxDone' = TRUE
  /\ UNCHANGED <<pod, scanner, handler, chans, sent>>

LogNext ==
  \/ PodWrites \/ ClientLeaves \/ Scan \/ SendCancelled \/ ReportScanErr
  \/ ServeLine \/ ServeEnd \/ Leave \/ CancelContext

(* Goroutines run; a handler that returned has its context ended; a handler *)
(* whose context is done sees it.                                           *)
LogFairness ==
  /\ WF_logVars(Scan \/ SendCancelled \/ ReportScanErr)
  /\ WF_logVars(ServeLine \/ ServeEnd)
  /\ WF_logVars(Leave /\ ctxDone)
  /\ WF_logVars(CancelContext)
LogSpec == LogInit /\ [][LogNext]_logVars /\ LogFairness

-----------------------------------------------------------------------------

(* How the client's copy of the log ends. *)
EndsInError == sent # <<>> /\ sent[Len(sent)] = ErrorEvent

(* The client gets the lines in order and without a gap, nothing after the   *)
(* error event, and when the stream ended of itself, all of the lines, with  *)
(* the error event if and only if it broke: "scanErr" is read without        *)
(* waiting, which is right only because the goroutine fills it before it     *)
(* closes the channel.                                                       *)
Faithful ==
  /\ \A i \in DOMAIN sent : sent[i] = i \/ (i = Len(sent) /\ sent[i] = ErrorEvent)
  /\ handler = "ended" /\ ~ctxDone =>
       /\ Len(sent) = pod.lines + (IF pod.end = "error" THEN 1 ELSE 0)
       /\ EndsInError <=> pod.end = "error"

(* No goroutine outlives its request for good, blocked on a channel nobody   *)
(* reads ("reading it from the goroutine races and would watch another       *)
(* request's cancellation").                                                 *)
NoGoroutineLeak == (handler # "serve") ~> (scanner.pc = "done")

(* A stream whose log has ended or whose client has left comes to its end.   *)
StreamEnds == (pod.end # "open" \/ ctxDone) ~> (handler # "serve")
=============================================================================
