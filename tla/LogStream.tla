----------------------------- MODULE LogStream -----------------------------
(***************************************************************************)
(* The lines of runs, and the requests that view them while a run goes on:  *)
(* log_channels and log_buffers, send_and_cache_log and the ends of execute *)
(* and execute_stream (src/services/executor.rs), and                       *)
(* subscribe_execution_logs (src/api/task.rs).                              *)
(*                                                                          *)
(* A line is its number in the order of sending.  tokio's broadcast channel *)
(* is external: a receiver gets what is sent after it subscribed, an error  *)
(* once it is too far behind, and the end when every sender is gone, the    *)
(* one in log_channels and the run's own.  The text of the lines and the    *)
(* cutting of output into lines are left out.                               *)
(***************************************************************************)
EXTENDS Naturals, Sequences, FiniteSets

CONSTANTS
  Run,          \* execution ids
  Viewer,       \* requests for the log of a run
  MaxLines,     \* bound on the lines of a run, the last one not counted
  Writers,      \* tracked commands of a run that write at the same time
  BufferMax,    \* lines that log_buffers keeps (1000)
  ChannelMax,   \* lines a channel keeps for a slow receiver (100)
  None          \* no value

ASSUME StreamAssumption ==
  /\ MaxLines \in Nat /\ ChannelMax \in Nat
  /\ Writers \in Nat \ {0} /\ BufferMax \in Nat \ {0}
  /\ None \notin Run

VARIABLES
  run,          \* each run: its stage, whether it is streamed, the lines sent
  inflight,     \* lines sent and not yet in the buffer
  log_channels, \* runs with a channel in the map
  log_buffers,  \* lines kept for each run, <<>> if the map has no entry
  buffered,     \* runs with an entry in log_buffers
  view,         \* each viewer: its stage and run, the history it got, the line after
                \* which it subscribed, the line it has received last
  cut           \* history: runs that returned an error or were dropped

mapVars == <<log_channels, log_buffers, buffered>>
streamVars == <<run, inflight, mapVars, view, cut>>

LineNo == 1..MaxLines + 1
RunStages == {"new", "pre", "main", "post", "duration", "remove", "over"}

StreamTypeOK ==
  /\ run \in [Run -> [at : RunStages, streamed : BOOLEAN, sent : 0..MaxLines + 1]]
  /\ inflight \in [Run -> SUBSET LineNo]
  /\ log_channels \subseteq Run /\ buffered \subseteq Run /\ cut \subseteq Run
  /\ log_buffers \in [Run -> Seq(LineNo)]
  /\ \A r \in Run : Len(log_buffers[r]) <= BufferMax + 1
  /\ view \in [Viewer -> [at : {"new", "history", "viewing", "ended"}, run : Run \cup {None},
                          history : Seq(LineNo), from : 0..MaxLines + 1, pos : 0..MaxLines + 1]]

-----------------------------------------------------------------------------
At(r, stage) == run[r].at = stage
Go(r, stage) == run' = [run EXCEPT ![r].at = stage]

NoView == [at |-> "new", run |-> None, history |-> <<>>, from |-> 0, pos |-> 0]

StreamInit ==
  /\ run = [r \in Run |-> [at |-> "new", streamed |-> FALSE, sent |-> 0]]
  /\ inflight = [r \in Run |-> {}]
  /\ log_channels = {} /\ buffered = {}
  /\ log_buffers = [r \in Run |-> <<>>]
  /\ view = [v \in Viewer |-> NoView]
  /\ cut = {}

-----------------------------------------------------------------------------
(* The run.                                                                  *)

Start(r) ==
  /\ At(r, "new")
  /\ \E s \in BOOLEAN : run' = [run EXCEPT ![r] = [at |-> "pre", streamed |-> s, sent |-> 0]]
  /\ log_channels' = log_channels \cup {r}
  /\ buffered' = buffered \cup {r}
  /\ UNCHANGED <<inflight, log_buffers, view, cut>>

Sends(r) == run[r].sent < MaxLines

\* tx.send alone: what is announced, pre- and post-commands, all of a streamed run.
SendOnly(r) ==
  /\ run[r].at \in IF run[r].streamed THEN {"main"} ELSE {"pre", "main", "post"}
  /\ Sends(r) /\ inflight[r] = {}
  /\ run' = [run EXCEPT ![r].sent = @ + 1]
  /\ UNCHANGED <<inflight, mapVars, view, cut>>

MainBegins(r) ==
  /\ At(r, "pre") /\ inflight[r] = {}
  /\ Go(r, "main")
  /\ UNCHANGED <<inflight, mapVars, view, cut>>

\* Faulty: the line goes to the buffer before it is sent.
SendLater(r) ==
  /\ run[r].at \in {"pre", "main"} /\ ~run[r].streamed /\ Sends(r)
  /\ inflight[r] = {}
  /\ inflight' = [inflight EXCEPT ![r] = {run[r].sent + 1}]
  /\ UNCHANGED <<run, mapVars, view, cut>>

\* send_and_cache_log sends first: main commands, and the changes of address before them.
SendLine(r) ==
  /\ run[r].at \in {"pre", "main"} /\ ~run[r].streamed /\ Sends(r)
  /\ Cardinality(inflight[r]) < IF At(r, "pre") THEN 1 ELSE Writers
  /\ run' = [run EXCEPT ![r].sent = @ + 1]
  /\ inflight' = [inflight EXCEPT ![r] = @ \cup {run[r].sent + 1}]
  /\ UNCHANGED <<mapVars, view, cut>>

\* Faulty: nothing is dropped.
PushedAll(b, n) == Append(b, n)

\* Then it pushes to the buffer, if there still is one, and drops the first of too many.
Pushed(b, n) == IF Len(b) >= BufferMax THEN Append(Tail(b), n) ELSE Append(b, n)

CacheLine(r, n) ==
  /\ n \in inflight[r]
  /\ inflight' = [inflight EXCEPT ![r] = @ \ {n}]
  /\ log_buffers' = IF r \in buffered THEN [log_buffers EXCEPT ![r] = Pushed(@, n)]
                    ELSE log_buffers
  /\ UNCHANGED <<run, log_channels, buffered, view, cut>>

MainEnds(r) ==
  /\ At(r, "main") /\ inflight[r] = {}
  /\ Go(r, IF run[r].streamed THEN "remove" ELSE "post")
  /\ UNCHANGED <<inflight, mapVars, view, cut>>

\* The time it took is sent, and kept whatever the length of the buffer.
Duration(r) ==
  /\ At(r, "post")
  /\ run' = [run EXCEPT ![r].at = "duration", ![r].sent = @ + 1]
  /\ UNCHANGED <<inflight, mapVars, view, cut>>

CacheDuration(r) ==
  /\ At(r, "duration")
  /\ log_buffers' = IF r \in buffered THEN [log_buffers EXCEPT ![r] = Append(@, run[r].sent)]
                    ELSE log_buffers
  /\ Go(r, "remove")
  /\ UNCHANGED <<inflight, log_channels, buffered, view, cut>>

\* Faulty: the channel stays as well.
RemoveNothing(r) ==
  /\ At(r, "remove")
  /\ Go(r, "over")
  /\ UNCHANGED <<inflight, mapVars, view, cut>>

\* At the end the channel is removed; the buffer stays.
Remove(r) ==
  /\ At(r, "remove")
  /\ log_channels' = log_channels \ {r}
  /\ Go(r, "over")
  /\ UNCHANGED <<inflight, log_buffers, buffered, view, cut>>

Forget(r) ==
  /\ log_channels' = log_channels \ {r}
  /\ buffered' = buffered \ {r}
  /\ log_buffers' = [log_buffers EXCEPT ![r] = <<>>]

\* The pre-command or the change of address fails.
EndsEarly(r) ==
  /\ At(r, "pre") /\ ~run[r].streamed /\ inflight[r] = {}
  /\ Forget(r) /\ Go(r, "over")
  /\ UNCHANGED <<inflight, view, cut>>

\* "?" (a process cannot be made), the client of a streamed run leaves, or an edit of the
\* task aborts its interval job: the maps keep their entries.
CutOff(r) ==
  /\ run[r].at \notin {"new", "over"}
  /\ Go(r, "over") /\ cut' = cut \cup {r}
  /\ inflight' = [inflight EXCEPT ![r] = {}]
  /\ UNCHANGED <<mapVars, view>>

\* kill_task_with_log, for any execution of the task it finds; the run goes on to its end,
\* or has ended since.
KillForgets(r) ==
  /\ r \in log_channels \cup buffered
  /\ Forget(r)
  /\ UNCHANGED <<run, inflight, view, cut>>

-----------------------------------------------------------------------------
(* The view.                                                                 *)

\* get_log_history, for a run one has heard of; an entry may be missing.
History(v, r) ==
  /\ view[v].at = "new" /\ ~At(r, "new")
  /\ view' = [view EXCEPT ![v] = [NoView EXCEPT !.at = "history", !.run = r,
                                                !.history = log_buffers[r]]]
  /\ UNCHANGED <<run, inflight, mapVars, cut>>

Ended == [NoView EXCEPT !.at = "ended"]

\* subscribe_logs; without a channel the answer is 404.
SubscribeLogs(v) ==
  /\ view[v].at = "history"
  /\ LET r == view[v].run
     IN  view' = [view EXCEPT ![v] =
           IF r \in log_channels
           THEN [@ EXCEPT !.at = "viewing", !.from = run[r].sent, !.pos = run[r].sent]
           ELSE Ended]
  /\ UNCHANGED <<run, inflight, mapVars, cut>>

\* A line; for one too far behind, the end.
Line(v) ==
  /\ view[v].at = "viewing"
  /\ LET sent == run[view[v].run].sent
     IN  /\ view[v].pos < sent
         /\ view' = [view EXCEPT ![v] =
              IF sent > @.pos + ChannelMax THEN Ended ELSE [view[v] EXCEPT !.pos = @ + 1]]
  /\ UNCHANGED <<run, inflight, mapVars, cut>>

\* The run has returned and its channel is not in the map.
NoMoreLines(v) ==
  /\ view[v].at = "viewing"
  /\ view[v].run \notin log_channels
  /\ At(view[v].run, "over") /\ view[v].pos = run[view[v].run].sent
  /\ view' = [view EXCEPT ![v] = Ended]
  /\ UNCHANGED <<run, inflight, mapVars, cut>>

-----------------------------------------------------------------------------
RunStep(r) ==
  \/ Start(r) \/ SendOnly(r) \/ MainBegins(r) \/ SendLine(r) \/ MainEnds(r)
  \/ Duration(r) \/ CacheDuration(r) \/ Remove(r)
  \/ EndsEarly(r) \/ CutOff(r) \/ KillForgets(r)
  \/ \E n \in LineNo : CacheLine(r, n)
ViewStep(v) == SubscribeLogs(v) \/ Line(v) \/ NoMoreLines(v)

StreamNext ==
  \/ \E r \in Run : RunStep(r)
  \/ \E v \in Viewer : ViewStep(v) \/ \E r \in Run : History(v, r)

StreamSpec == StreamInit /\ [][StreamNext]_streamVars

\* tokio polls the responses to viewers; the runs themselves need not go on.
StreamFairness == \A v \in Viewer : WF_streamVars(ViewStep(v))

-----------------------------------------------------------------------------
(* Properties.                                                               *)

\* A viewer is never shown a line twice: what the history contains was sent before the
\* subscription, since send_and_cache_log sends before it caches.
NoLineTwice ==
  \A v \in Viewer : view[v].at = "viewing" =>
    \A i \in DOMAIN view[v].history : view[v].history[i] <= view[v].from

\* A view ends after its run has, unless the run was cut off: then its channel stays in
\* the map, and the view stays open.
ViewsEnd ==
  \A v \in Viewer, r \in Run :
    (view[v].at = "viewing" /\ view[v].run = r /\ At(r, "over") /\ r \notin cut)
      ~> view[v].at = "ended"
=============================================================================
