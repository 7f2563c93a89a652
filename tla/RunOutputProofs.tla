--------------------------- MODULE RunOutputProofs --------------------------
(***************************************************************************)
(* Proofs about what runs leave for others to see.  LogStream, for any      *)
(* number of runs, viewers, lines and writers and any size of the buffer:   *)
(* the types, and that no viewer gets a line twice.  RunningFeed, for any   *)
(* number of runs, tasks, kills and watchers and any length of their        *)
(* queues: the types, and that a watcher who has received everything shows  *)
(* the tasks that run.  And RunOutput, which keeps what each of its         *)
(* components keeps (LogTableProofs has those of the third).                *)
(***************************************************************************)
EXTENDS RunOutput, LogTableProofs, TLAPS

-----------------------------------------------------------------------------
(* LogStream: the inductive invariant.                                       *)

RunType == [at : RunStages, streamed : BOOLEAN, sent : 0..MaxLines + 1]

\* The bounds hold because of the order of the stages: the last line is the duration.
CountedAt(r) ==
  /\ run[r].at = "new" => run[r].sent = 0
  /\ run[r].at \in {"pre", "main", "post"} => run[r].sent <= MaxLines
  /\ run[r].at = "duration" => run[r].sent >= 1
  /\ run[r].at \in {"post", "duration", "remove", "over"} => inflight[r] = {}
  /\ run[r].at \in {"new", "pre", "main", "post", "duration"} => Len(log_buffers[r]) <= BufferMax

\* What is on its way to the buffer of a run, or in it, was sent before.
SentAt(r) ==
  /\ \A n \in inflight[r] : n <= run[r].sent
  /\ \A i \in DOMAIN log_buffers[r] : log_buffers[r][i] <= run[r].sent

\* So was what is in a history.
SeenSent(v) ==
  view[v].at \in {"history", "viewing"} =>
    /\ view[v].run \in Run
    /\ \A i \in DOMAIN view[v].history : view[v].history[i] <= run[view[v].run].sent

StreamInv ==
  /\ StreamTypeOK
  /\ \A r \in Run : CountedAt(r) /\ SentAt(r)
  /\ \A v \in Viewer : SeenSent(v)
  /\ NoLineTwice

-----------------------------------------------------------------------------
(* LogStream: lemmas.                                                        *)

\* What Append does to the length and the elements of a sequence of lines.
LEMMA AppendKeeps ==
  ASSUME NEW b \in Seq(LineNo), NEW n \in LineNo, NEW limit \in Nat,
         n <= limit, \A i \in DOMAIN b : b[i] <= limit
  PROVE  /\ Append(b, n) \in Seq(LineNo)
         /\ Len(Append(b, n)) = Len(b) + 1
         /\ \A i \in DOMAIN Append(b, n) : Append(b, n)[i] <= limit
<1>1. Append(b, n) \in Seq(LineNo) /\ Len(Append(b, n)) = Len(b) + 1
  OBVIOUS
<1>2. ASSUME NEW i \in DOMAIN Append(b, n) PROVE Append(b, n)[i] <= limit
  <2>1. i \in 1..Len(b) + 1
    BY <1>1, <1>2
  <2>2. CASE i \in 1..Len(b)
    <3>1. Append(b, n)[i] = b[i] /\ i \in DOMAIN b
      BY <2>2
    <3> QED
      BY <3>1
  <2>3. CASE i = Len(b) + 1
    BY <2>3
  <2> QED
    BY <2>1, <2>2, <2>3
<1> QED
  BY <1>1, <1>2

\* What Tail does.
LEMMA TailKeeps ==
  ASSUME NEW b \in Seq(LineNo), b # <<>>, NEW limit \in Nat, \A i \in DOMAIN b : b[i] <= limit
  PROVE  /\ Tail(b) \in Seq(LineNo)
         /\ Len(Tail(b)) = Len(b) - 1
         /\ \A i \in DOMAIN Tail(b) : Tail(b)[i] <= limit
<1>1. Tail(b) \in Seq(LineNo) /\ Len(Tail(b)) = Len(b) - 1
  OBVIOUS
<1>2. ASSUME NEW i \in DOMAIN Tail(b) PROVE Tail(b)[i] <= limit
  <2>1. i \in 1..Len(b) - 1
    BY <1>1, <1>2
  <2>2. Tail(b)[i] = b[i + 1] /\ i + 1 \in DOMAIN b
    BY <2>1
  <2> QED
    BY <2>2
<1> QED
  BY <1>1, <1>2

\* A line that is pushed keeps the buffer typed and bounded, and adds nothing but itself.
LEMMA PushedKeeps ==
  ASSUME NEW b \in Seq(LineNo), NEW n \in LineNo, NEW limit \in Nat,
         n <= limit, \A i \in DOMAIN b : b[i] <= limit
  PROVE  /\ Pushed(b, n) \in Seq(LineNo)
         /\ Len(b) <= BufferMax => Len(Pushed(b, n)) <= BufferMax
         /\ Len(b) <= BufferMax + 1 => Len(Pushed(b, n)) <= BufferMax + 1
         /\ \A i \in DOMAIN Pushed(b, n) : Pushed(b, n)[i] <= limit
<1>0. Len(b) \in Nat
  OBVIOUS
<1>1. CASE Len(b) >= BufferMax
  <2>1. b # <<>>
    BY <1>1, StreamAssumption
  <2>2. /\ Tail(b) \in Seq(LineNo) /\ Len(Tail(b)) = Len(b) - 1
        /\ \A i \in DOMAIN Tail(b) : Tail(b)[i] <= limit
    BY <2>1, TailKeeps
  <2>3. /\ Append(Tail(b), n) \in Seq(LineNo)
        /\ Len(Append(Tail(b), n)) = Len(Tail(b)) + 1
        /\ \A i \in DOMAIN Append(Tail(b), n) : Append(Tail(b), n)[i] <= limit
    BY <2>2, AppendKeeps
  <2>4. Pushed(b, n) = Append(Tail(b), n) /\ Len(Pushed(b, n)) = Len(b)
    BY <1>0, <1>1, <2>2, <2>3 DEF Pushed
  <2> QED
    BY <2>3, <2>4
<1>2. CASE ~(Len(b) >= BufferMax)
  <2>1. /\ Append(b, n) \in Seq(LineNo) /\ Len(Append(b, n)) = Len(b) + 1
        /\ \A i \in DOMAIN Append(b, n) : Append(b, n)[i] <= limit
    BY AppendKeeps
  <2>2. Pushed(b, n) = Append(b, n)
    BY <1>2 DEF Pushed
  <2> QED
    BY <1>0, <1>2, <2>1, <2>2, StreamAssumption
<1> QED
  BY <1>1, <1>2

\* At the start nothing has been sent.
LEMMA StreamInitInv == StreamInit => StreamInv
BY StreamAssumption
   DEF StreamInit, StreamInv, StreamTypeOK, CountedAt, SentAt, SeenSent, NoLineTwice, NoView,
       RunStages, LineNo

-----------------------------------------------------------------------------
(* LogStream: steps of a run.                                                *)

\* A step of one run: the others and the views are as before, and more may have been sent.
LEMMA OneRun ==
  ASSUME StreamInv, NEW r \in Run, StreamTypeOK',
         \A q \in Run \ {r} :
           run'[q] = run[q] /\ inflight'[q] = inflight[q] /\ log_buffers'[q] = log_buffers[q],
         run'[r].sent >= run[r].sent,
         CountedAt(r)', SentAt(r)', UNCHANGED view
  PROVE  StreamInv'
<1>1. \A q \in Run : run[q].sent \in Nat /\ run'[q].sent \in Nat /\ run[q].sent <= run'[q].sent
  <2>1. ASSUME NEW q \in Run PROVE run[q].sent \in Nat /\ run'[q].sent \in Nat
    BY StreamAssumption DEF StreamInv, StreamTypeOK
  <2>2. ASSUME NEW q \in Run PROVE run[q].sent <= run'[q].sent
    BY <2>1
  <2> QED
    BY <2>1, <2>2
<1>2. ASSUME NEW q \in Run PROVE CountedAt(q)' /\ SentAt(q)'
  <2>1. CASE q = r
    BY <2>1
  <2>2. CASE q # r
    BY <2>2 DEF StreamInv, CountedAt, SentAt
  <2> QED
    BY <2>1, <2>2
<1>3. ASSUME NEW v \in Viewer PROVE SeenSent(v)'
  <2> SUFFICES ASSUME view[v].at \in {"history", "viewing"}
               PROVE  /\ view[v].run \in Run
                      /\ \A i \in DOMAIN view[v].history : view[v].history[i] <= run'[view[v].run].sent
    BY DEF SeenSent
  <2>1. /\ view[v].run \in Run
        /\ \A i \in DOMAIN view[v].history : view[v].history[i] <= run[view[v].run].sent
    BY DEF StreamInv, SeenSent
  <2>2. \A i \in DOMAIN view[v].history : view[v].history[i] \in Nat
    BY StreamAssumption DEF StreamInv, StreamTypeOK, LineNo
  <2> QED
    BY <2>1, <2>2, <1>1
<1>4. NoLineTwice'
  BY DEF StreamInv, NoLineTwice
<1> QED
  BY <1>2, <1>3, <1>4 DEF StreamInv

\* A stage and a number of lines keep the table of runs typed.
LEMMA RunTyped ==
  ASSUME StreamTypeOK, NEW r \in Run, NEW at \in RunStages, NEW sent \in 0..MaxLines + 1
  PROVE  /\ [run EXCEPT ![r].at = at] \in [Run -> RunType]
         /\ [run EXCEPT ![r].sent = sent] \in [Run -> RunType]
         /\ [run EXCEPT ![r].at = at, ![r].sent = sent] \in [Run -> RunType]
<1>1. run \in [Run -> RunType]
  BY DEF StreamTypeOK, RunType
<1>2. run[r] \in RunType
  BY <1>1
<1>3. /\ [run[r] EXCEPT !.at = at] \in RunType
      /\ [run[r] EXCEPT !.sent = sent] \in RunType
      /\ [run[r] EXCEPT !.at = at, !.sent = sent] \in RunType
  BY <1>2 DEF RunType
<1>4. /\ [run EXCEPT ![r] = [run[r] EXCEPT !.at = at]] \in [Run -> RunType]
      /\ [run EXCEPT ![r] = [run[r] EXCEPT !.sent = sent]] \in [Run -> RunType]
      /\ [run EXCEPT ![r] = [run[r] EXCEPT !.at = at, !.sent = sent]] \in [Run -> RunType]
  BY <1>1, <1>3
<1> QED
  BY <1>1, <1>4

\* No step of a run breaks the invariant.
LEMMA RunStepKeeps ==
  ASSUME StreamInv, NEW r \in Run, RunStep(r)
  PROVE  StreamInv'
<1> USE DEF At, Go, mapVars
<1>1. StreamTypeOK /\ CountedAt(r) /\ SentAt(r) /\ run[r].sent \in Nat
  BY StreamAssumption DEF StreamInv, StreamTypeOK
<1> DEFINE Others == \A q \in Run \ {r} :
             run'[q] = run[q] /\ inflight'[q] = inflight[q] /\ log_buffers'[q] = log_buffers[q]
<1>2. CASE Start(r)
  <2>0. run' \in [Run -> RunType]
    BY <1>1, <1>2, StreamAssumption DEF Start, StreamTypeOK, CountedAt, RunType, RunStages
  <2>1. StreamTypeOK'
    BY <1>1, <1>2, <2>0 DEF Start, StreamTypeOK, RunType
  <2>2. Others /\ run'[r].sent >= run[r].sent
    BY <1>1, <1>2 DEF Start, StreamTypeOK, CountedAt
  <2>3. CountedAt(r)'
    BY <1>1, <1>2, StreamAssumption DEF Start, StreamTypeOK, CountedAt
  <2>4. SentAt(r)'
    BY <1>1, <1>2, StreamAssumption DEF Start, StreamTypeOK, CountedAt, SentAt, LineNo
  <2> QED
    BY <1>2, <2>1, <2>2, <2>3, <2>4, OneRun DEF Start
<1>3. CASE SendOnly(r)
  <2>0. run' \in [Run -> RunType]
    <3>1. run[r].sent + 1 \in 0..MaxLines + 1 /\ run[r].at \in RunStages
      BY <1>1, <1>3, StreamAssumption DEF SendOnly, Sends, StreamTypeOK, CountedAt, RunStages
    <3> QED
      BY <1>1, <1>3, <3>1, RunTyped DEF SendOnly
  <2>1. StreamTypeOK'
    BY <1>1, <1>3, <2>0 DEF SendOnly, Sends, StreamTypeOK, RunType
  <2>2. Others /\ run'[r].sent >= run[r].sent
    BY <1>1, <1>3 DEF SendOnly, StreamTypeOK, CountedAt
  <2>3. CountedAt(r)'
    BY <1>1, <1>3, StreamAssumption DEF SendOnly, Sends, StreamTypeOK, CountedAt
  <2>4. SentAt(r)'
    BY <1>1, <1>3, StreamAssumption DEF SendOnly, StreamTypeOK, CountedAt, SentAt, LineNo
  <2> QED
    BY <1>3, <2>1, <2>2, <2>3, <2>4, OneRun DEF SendOnly
<1>4. CASE MainBegins(r)
  <2>0. run' \in [Run -> RunType]
    <3>1. "main" \in RunStages /\ run[r].sent \in 0..MaxLines + 1
      BY <1>1, <1>4, StreamAssumption DEF MainBegins, StreamTypeOK, CountedAt, RunStages
    <3> QED
      BY <1>1, <1>4, <3>1, RunTyped DEF MainBegins
  <2>1. StreamTypeOK'
    BY <1>1, <1>4, <2>0 DEF MainBegins, StreamTypeOK, RunType
  <2>2. Others /\ run'[r].sent >= run[r].sent
    BY <1>1, <1>4 DEF MainBegins, StreamTypeOK, CountedAt
  <2>3. CountedAt(r)'
    BY <1>1, <1>4, StreamAssumption DEF MainBegins, StreamTypeOK, CountedAt
  <2>4. SentAt(r)'
    BY <1>1, <1>4, StreamAssumption DEF MainBegins, StreamTypeOK, CountedAt, SentAt, LineNo
  <2> QED
    BY <1>4, <2>1, <2>2, <2>3, <2>4, OneRun DEF MainBegins
<1>5. CASE SendLine(r)
  <2>0. run' \in [Run -> RunType]
    <3>1. run[r].sent + 1 \in 0..MaxLines + 1 /\ run[r].at \in RunStages
      BY <1>1, <1>5, StreamAssumption DEF SendLine, Sends, StreamTypeOK, CountedAt, RunStages
    <3> QED
      BY <1>1, <1>5, <3>1, RunTyped DEF SendLine
  <2>1. StreamTypeOK'
    BY <1>1, <1>5, <2>0 DEF SendLine, Sends, StreamTypeOK, RunType, LineNo
  <2>2. Others /\ run'[r].sent >= run[r].sent
    BY <1>1, <1>5 DEF SendLine, StreamTypeOK, CountedAt
  <2>3. CountedAt(r)'
    BY <1>1, <1>5, StreamAssumption DEF SendLine, Sends, StreamTypeOK, CountedAt
  <2>4. SentAt(r)'
    BY <1>1, <1>5, StreamAssumption DEF SendLine, StreamTypeOK, CountedAt, SentAt, LineNo
  <2> QED
    BY <1>5, <2>1, <2>2, <2>3, <2>4, OneRun DEF SendLine
<1>6. CASE MainEnds(r)
  <2>0. run' \in [Run -> RunType]
    <3>1. "remove" \in RunStages /\ "post" \in RunStages /\ run[r].sent \in 0..MaxLines + 1
      BY <1>1, <1>6, StreamAssumption DEF MainEnds, StreamTypeOK, CountedAt, RunStages
    <3> QED
      BY <1>1, <1>6, <3>1, RunTyped DEF MainEnds
  <2>1. StreamTypeOK'
    BY <1>1, <1>6, <2>0 DEF MainEnds, StreamTypeOK, RunType
  <2>2. Others /\ run'[r].sent >= run[r].sent
    BY <1>1, <1>6 DEF MainEnds, StreamTypeOK, CountedAt
  <2>3. CountedAt(r)'
    BY <1>1, <1>6, StreamAssumption DEF MainEnds, StreamTypeOK, CountedAt
  <2>4. SentAt(r)'
    BY <1>1, <1>6, StreamAssumption DEF MainEnds, StreamTypeOK, CountedAt, SentAt, LineNo
  <2> QED
    BY <1>6, <2>1, <2>2, <2>3, <2>4, OneRun DEF MainEnds
<1>7. CASE Duration(r)
  <2>0. run' \in [Run -> RunType]
    <3>1. run[r].sent + 1 \in 0..MaxLines + 1 /\ "duration" \in RunStages
      BY <1>1, <1>7, StreamAssumption DEF Duration, StreamTypeOK, CountedAt, RunStages
    <3> QED
      BY <1>1, <1>7, <3>1, RunTyped DEF Duration
  <2>1. StreamTypeOK'
    BY <1>1, <1>7, <2>0 DEF Duration, StreamTypeOK, RunType
  <2>2. Others /\ run'[r].sent >= run[r].sent
    BY <1>1, <1>7 DEF Duration, StreamTypeOK, CountedAt
  <2>3. CountedAt(r)'
    BY <1>1, <1>7, StreamAssumption DEF Duration, StreamTypeOK, CountedAt
  <2>4. SentAt(r)'
    BY <1>1, <1>7, StreamAssumption DEF Duration, StreamTypeOK, CountedAt, SentAt, LineNo
  <2> QED
    BY <1>7, <2>1, <2>2, <2>3, <2>4, OneRun DEF Duration
<1>8. CASE Remove(r)
  <2>0. run' \in [Run -> RunType]
    <3>1. "over" \in RunStages /\ run[r].sent \in 0..MaxLines + 1
      BY <1>1, <1>8, StreamAssumption DEF Remove, StreamTypeOK, CountedAt, RunStages
    <3> QED
      BY <1>1, <1>8, <3>1, RunTyped DEF Remove
  <2>1. StreamTypeOK'
    BY <1>1, <1>8, <2>0 DEF Remove, StreamTypeOK, RunType
  <2>2. Others /\ run'[r].sent >= run[r].sent
    BY <1>1, <1>8 DEF Remove, StreamTypeOK, CountedAt
  <2>3. CountedAt(r)'
    BY <1>1, <1>8, StreamAssumption DEF Remove, StreamTypeOK, CountedAt
  <2>4. SentAt(r)'
    BY <1>1, <1>8, StreamAssumption DEF Remove, StreamTypeOK, CountedAt, SentAt, LineNo
  <2> QED
    BY <1>8, <2>1, <2>2, <2>3, <2>4, OneRun DEF Remove
<1>9. CASE CutOff(r)
  <2>0. run' \in [Run -> RunType]
    <3>1. "over" \in RunStages /\ run[r].sent \in 0..MaxLines + 1
      BY <1>1, <1>9, StreamAssumption DEF CutOff, StreamTypeOK, CountedAt, RunStages
    <3> QED
      BY <1>1, <1>9, <3>1, RunTyped DEF CutOff
  <2>1. StreamTypeOK'
    BY <1>1, <1>9, <2>0 DEF CutOff, StreamTypeOK, RunType
  <2>2. Others /\ run'[r].sent >= run[r].sent
    BY <1>1, <1>9 DEF CutOff, StreamTypeOK, CountedAt
  <2>3. CountedAt(r)'
    BY <1>1, <1>9, StreamAssumption DEF CutOff, StreamTypeOK, CountedAt
  <2>4. SentAt(r)'
    BY <1>1, <1>9, StreamAssumption DEF CutOff, StreamTypeOK, CountedAt, SentAt, LineNo
  <2> QED
    BY <1>9, <2>1, <2>2, <2>3, <2>4, OneRun DEF CutOff
<1>10. CASE CacheDuration(r)
  <2>1. run[r].sent \in LineNo /\ Len(log_buffers[r]) <= BufferMax /\ inflight[r] = {}
    BY <1>1, <1>10 DEF CacheDuration, CountedAt, StreamTypeOK, LineNo
  <2>2. /\ Append(log_buffers[r], run[r].sent) \in Seq(LineNo)
        /\ Len(Append(log_buffers[r], run[r].sent)) = Len(log_buffers[r]) + 1
        /\ \A i \in DOMAIN Append(log_buffers[r], run[r].sent) :
             Append(log_buffers[r], run[r].sent)[i] <= run[r].sent
    BY <1>1, <2>1, AppendKeeps DEF StreamTypeOK, SentAt
  <2>3. PICK b \in {log_buffers[r], Append(log_buffers[r], run[r].sent)} :
          log_buffers' = [log_buffers EXCEPT ![r] = b]
    BY <1>1, <1>10 DEF CacheDuration, StreamTypeOK
  <2>4. b \in Seq(LineNo) /\ Len(b) <= BufferMax + 1 /\ \A i \in DOMAIN b : b[i] <= run[r].sent
    <3>1. log_buffers[r] \in Seq(LineNo) /\ Len(log_buffers[r]) \in Nat
      BY <1>1 DEF StreamTypeOK
    <3>2. CASE b = log_buffers[r]
      BY <1>1, <3>1, <3>2 DEF StreamTypeOK, SentAt
    <3>3. CASE b = Append(log_buffers[r], run[r].sent)
      BY <2>1, <2>2, <3>1, <3>3, StreamAssumption
    <3> QED
      BY <2>3, <3>2, <3>3
  <2>5. /\ run'[r].at = "remove" /\ run'[r].sent = run[r].sent
        /\ run' \in [Run -> [at : RunStages, streamed : BOOLEAN, sent : 0..MaxLines + 1]]
    BY <1>1, <1>10 DEF CacheDuration, StreamTypeOK, RunStages
  <2>6. log_buffers'[r] = b /\ inflight'[r] = {}
    BY <1>1, <1>10, <2>1, <2>3 DEF CacheDuration, StreamTypeOK
  <2>7. Others
    BY <1>1, <1>10, <2>3 DEF CacheDuration, StreamTypeOK
  <2>8. StreamTypeOK'
    BY <1>1, <1>10, <2>3, <2>4, <2>5 DEF CacheDuration, StreamTypeOK
  <2>9. CountedAt(r)' /\ SentAt(r)'
    BY <2>4, <2>5, <2>6 DEF CountedAt, SentAt
  <2> QED
    BY <1>1, <1>10, <2>5, <2>7, <2>8, <2>9, OneRun DEF CacheDuration
<1>11. ASSUME EndsEarly(r) \/ KillForgets(r) PROVE StreamInv'
  <2>1. /\ log_buffers' = [log_buffers EXCEPT ![r] = <<>>] /\ UNCHANGED <<inflight, view, cut>>
        /\ log_channels' = log_channels \ {r} /\ buffered' = buffered \ {r}
    BY <1>11 DEF EndsEarly, KillForgets, Forget
  <2>2. /\ Others /\ run'[r].sent = run[r].sent
        /\ run' \in [Run -> [at : RunStages, streamed : BOOLEAN, sent : 0..MaxLines + 1]]
        /\ run'[r].at = run[r].at \/ (run'[r].at = "over" /\ inflight[r] = {})
    BY <1>1, <1>11, <2>1 DEF EndsEarly, KillForgets, StreamTypeOK, RunStages
  <2>3. log_buffers'[r] = <<>> /\ <<>> \in Seq(LineNo) /\ Len(<<>>) = 0
    BY <1>1, <2>1 DEF StreamTypeOK
  <2>4. StreamTypeOK'
    <3>1. log_buffers' \in [Run -> Seq(LineNo)]
      BY <1>1, <2>1, <2>3 DEF StreamTypeOK
    <3>2. \A q \in Run : Len(log_buffers'[q]) <= BufferMax + 1
      <4> SUFFICES ASSUME NEW q \in Run PROVE Len(log_buffers'[q]) <= BufferMax + 1
        OBVIOUS
      <4>1. CASE q = r
        BY <2>3, <4>1, StreamAssumption
      <4>2. CASE q # r
        BY <1>1, <2>2, <4>2 DEF StreamTypeOK
      <4> QED
        BY <4>1, <4>2
    <3> QED
      BY <1>1, <2>1, <2>2, <3>1, <3>2 DEF StreamTypeOK
  <2>5. CountedAt(r)'
    BY <1>1, <2>1, <2>2, <2>3, StreamAssumption DEF CountedAt
  <2>6. SentAt(r)'
    BY <1>1, <2>1, <2>2, <2>3 DEF SentAt
  <2> QED
    BY <1>1, <2>1, <2>2, <2>4, <2>5, <2>6, OneRun
<1>12. ASSUME NEW n \in LineNo, CacheLine(r, n) PROVE StreamInv'
  <2>1. /\ n \in inflight[r] /\ n <= run[r].sent /\ UNCHANGED <<run, log_channels, buffered, view, cut>>
        /\ inflight' = [inflight EXCEPT ![r] = @ \ {n}]
    BY <1>1, <1>12 DEF CacheLine, SentAt
  <2>2. /\ Pushed(log_buffers[r], n) \in Seq(LineNo)
        /\ Len(log_buffers[r]) <= BufferMax => Len(Pushed(log_buffers[r], n)) <= BufferMax
        /\ Len(log_buffers[r]) <= BufferMax + 1 => Len(Pushed(log_buffers[r], n)) <= BufferMax + 1
        /\ \A i \in DOMAIN Pushed(log_buffers[r], n) : Pushed(log_buffers[r], n)[i] <= run[r].sent
    BY <1>1, <2>1, PushedKeeps DEF StreamTypeOK, SentAt
  <2>3. PICK b \in {log_buffers[r], Pushed(log_buffers[r], n)} :
          log_buffers' = [log_buffers EXCEPT ![r] = b]
    BY <1>1, <1>12 DEF CacheLine, StreamTypeOK
  <2>4. /\ b \in Seq(LineNo) /\ Len(b) <= BufferMax + 1 /\ \A i \in DOMAIN b : b[i] <= run[r].sent
        /\ Len(log_buffers[r]) <= BufferMax => Len(b) <= BufferMax
    BY <1>1, <2>2, <2>3 DEF StreamTypeOK, SentAt
  <2>5. Others /\ log_buffers'[r] = b /\ inflight'[r] = inflight[r] \ {n}
    BY <1>1, <2>1, <2>3 DEF StreamTypeOK
  <2>6. StreamTypeOK'
    BY <1>1, <2>1, <2>3, <2>4 DEF StreamTypeOK
  <2>7. CountedAt(r)' /\ SentAt(r)'
    BY <1>1, <2>1, <2>4, <2>5 DEF CountedAt, SentAt
  <2> QED
    BY <1>1, <2>1, <2>5, <2>6, <2>7, OneRun
<1> QED
  BY <1>2, <1>3, <1>4, <1>5, <1>6, <1>7, <1>8, <1>9, <1>10, <1>11, <1>12 DEF RunStep

-----------------------------------------------------------------------------
(* LogStream: steps of a viewer.                                             *)

\* A step of one viewer: the runs, the buffers and the other viewers are as before.
LEMMA OneView ==
  ASSUME StreamInv, NEW v \in Viewer, NEW new, view' = [view EXCEPT ![v] = new],
         new \in [at : {"new", "history", "viewing", "ended"}, run : Run \cup {None},
                  history : Seq(LineNo), from : 0..MaxLines + 1, pos : 0..MaxLines + 1],
         new.at \in {"history", "viewing"} =>
           /\ new.run \in Run
           /\ \A i \in DOMAIN new.history : new.history[i] <= run[new.run].sent,
         new.at = "viewing" => \A i \in DOMAIN new.history : new.history[i] <= new.from,
         UNCHANGED <<run, inflight, mapVars, cut>>
  PROVE  StreamInv'
<1>1. view'[v] = new /\ \A w \in Viewer \ {v} : view'[w] = view[w]
  BY DEF StreamInv, StreamTypeOK
<1>2. StreamTypeOK'
  BY DEF StreamInv, StreamTypeOK, mapVars
<1>3. \A r \in Run : CountedAt(r)' /\ SentAt(r)'
  BY DEF StreamInv, CountedAt, SentAt, mapVars
<1>4. ASSUME NEW w \in Viewer PROVE SeenSent(w)'
  <2>1. CASE w = v
    BY <1>1, <2>1 DEF SeenSent
  <2>2. CASE w # v
    BY <1>1, <2>2 DEF StreamInv, SeenSent
  <2> QED
    BY <2>1, <2>2
<1>5. NoLineTwice'
  BY <1>1 DEF StreamInv, NoLineTwice
<1> QED
  BY <1>2, <1>3, <1>4, <1>5 DEF StreamInv

\* No step of a viewer breaks the invariant: the history was sent before the subscription.
LEMMA ViewStepKeeps ==
  ASSUME StreamInv, NEW v \in Viewer, ViewStep(v) \/ \E r \in Run : History(v, r)
  PROVE  StreamInv'
<1> DEFINE View == [at : {"new", "history", "viewing", "ended"}, run : Run \cup {None},
                    history : Seq(LineNo), from : 0..MaxLines + 1, pos : 0..MaxLines + 1]
<1>1. view[v] \in View /\ SeenSent(v)
  BY DEF StreamInv, StreamTypeOK
<1>2. NoView \in View /\ Ended \in View /\ Ended.at = "ended"
  <2>1. 0 \in 0..MaxLines + 1 /\ <<>> \in Seq(LineNo)
    BY StreamAssumption
  <2> QED
    BY <2>1 DEF NoView, Ended
<1>3. ASSUME NEW r \in Run, History(v, r) PROVE StreamInv'
  <2> DEFINE new == [NoView EXCEPT !.at = "history", !.run = r, !.history = log_buffers[r]]
  <2>1. log_buffers[r] \in Seq(LineNo) /\ SentAt(r)
    BY DEF StreamInv, StreamTypeOK
  <2>2. /\ new \in View /\ new.at = "history" /\ new.run = r
        /\ new.history = log_buffers[r]
    BY <1>2, <2>1 DEF NoView
  <2>3. view' = [view EXCEPT ![v] = new] /\ UNCHANGED <<run, inflight, mapVars, cut>>
    BY <1>3 DEF History
  <2> HIDE DEF new
  <2> QED
    BY <2>1, <2>2, <2>3, OneView DEF SentAt
<1>4. CASE SubscribeLogs(v)
  <2> DEFINE r == view[v].run
             new == [view[v] EXCEPT !.from = run[r].sent, !.pos = run[r].sent, !.at = "viewing"]
  <2>1. view[v].at = "history" /\ r \in Run
    BY <1>1, <1>4 DEF SubscribeLogs, SeenSent
  <2>2. run[r].sent \in 0..MaxLines + 1
    BY <2>1 DEF StreamInv, StreamTypeOK
  <2>3. /\ new \in View /\ new.at = "viewing" /\ new.run = r /\ new.from = run[r].sent
        /\ new.history = view[v].history
    BY <1>1, <2>2
  <2>4. \A i \in DOMAIN new.history : new.history[i] <= run[r].sent
    BY <1>1, <2>1, <2>3 DEF SeenSent
  <2>5. /\ view' = [view EXCEPT ![v] = new] \/ view' = [view EXCEPT ![v] = Ended]
        /\ UNCHANGED <<run, inflight, mapVars, cut>>
    BY <1>4 DEF SubscribeLogs
  <2>6. CASE view' = [view EXCEPT ![v] = new]
    <3> HIDE DEF new
    <3> QED
      BY <2>1, <2>3, <2>4, <2>5, <2>6, OneView
  <2>7. CASE view' = [view EXCEPT ![v] = Ended]
    BY <1>2, <2>5, <2>7, OneView
  <2> QED
    BY <2>5, <2>6, <2>7
<1>5. CASE Line(v)
  <2> DEFINE new == [view[v] EXCEPT !.pos = @ + 1]
  <2>1. view[v].at = "viewing" /\ view[v].pos < run[view[v].run].sent /\ view[v].run \in Run
    BY <1>1, <1>5 DEF Line, SeenSent
  <2>2. view[v].pos + 1 \in 0..MaxLines + 1
    <3>1. run[view[v].run].sent \in 0..MaxLines + 1 /\ view[v].pos \in 0..MaxLines + 1
      BY <1>1, <2>1 DEF StreamInv, StreamTypeOK
    <3> QED
      BY <2>1, <3>1, StreamAssumption
  <2>3. /\ new \in View /\ new.at = "viewing" /\ new.run = view[v].run
        /\ new.from = view[v].from /\ new.history = view[v].history
    BY <1>1, <2>1, <2>2
  <2>4. /\ view' = [view EXCEPT ![v] = new] \/ view' = [view EXCEPT ![v] = Ended]
        /\ UNCHANGED <<run, inflight, mapVars, cut>>
    BY <1>5 DEF Line
  <2>5. /\ \A i \in DOMAIN view[v].history : view[v].history[i] <= run[view[v].run].sent
        /\ \A i \in DOMAIN view[v].history : view[v].history[i] <= view[v].from
    BY <1>1, <2>1 DEF StreamInv, NoLineTwice, SeenSent
  <2>6. CASE view' = [view EXCEPT ![v] = new]
    <3> HIDE DEF new
    <3> QED
      BY <2>1, <2>3, <2>4, <2>5, <2>6, OneView
  <2>7. CASE view' = [view EXCEPT ![v] = Ended]
    BY <1>2, <2>4, <2>7, OneView
  <2> QED
    BY <2>4, <2>6, <2>7
<1>6. CASE NoMoreLines(v)
  BY <1>2, <1>6, OneView DEF NoMoreLines
<1> QED
  BY <1>3, <1>4, <1>5, <1>6 DEF ViewStep

\* No step breaks the invariant.
LEMMA StreamStepKeeps == StreamInv /\ [StreamNext]_streamVars => StreamInv'
<1> SUFFICES ASSUME StreamInv, [StreamNext]_streamVars PROVE StreamInv'
  OBVIOUS
<1>1. CASE UNCHANGED streamVars
  BY <1>1 DEF streamVars, mapVars, StreamInv, StreamTypeOK, CountedAt, SentAt, SeenSent, NoLineTwice
<1> QED
  BY <1>1, RunStepKeeps, ViewStepKeeps DEF StreamNext

-----------------------------------------------------------------------------
(* LogStream: theorems.                                                      *)

\* Every variable keeps its type, and no buffer grows beyond its bound: the lines of
\* send_and_cache_log and one more, the duration.
THEOREM StreamTypeCorrect == StreamSpec => []StreamTypeOK
<1>1. StreamInv => StreamTypeOK
  BY DEF StreamInv
<1> QED
  BY <1>1, StreamInitInv, StreamStepKeeps, PTL DEF StreamSpec

\* A viewer is never shown a line twice (subscribe_execution_logs), whatever runs, kills
\* and dropped runs do between its reading the history and its subscription.
THEOREM NoLineTwiceHolds == StreamSpec => []NoLineTwice
<1>1. StreamInv => NoLineTwice
  BY DEF StreamInv
<1> QED
  BY <1>1, StreamInitInv, StreamStepKeeps, PTL DEF StreamSpec

-----------------------------------------------------------------------------
(* RunningFeed: the inductive invariant.                                     *)

\* What a watcher will show when it has received what is on its way.
LastSent(w) ==
  IF watch[w].queue = <<>> THEN watch[w].list ELSE watch[w].queue[Len(watch[w].queue)]

\* A watcher that is not too far behind: once it has its first list, what is sent last is
\* current; before that, it is if anything is on its way.
Current(w) ==
  Told /\ ~stale /\ Len(watch[w].queue) <= QueueMax
    /\ (watch[w].at = "watching" \/ (watch[w].at = "subscribed" /\ watch[w].queue # <<>>))
    => LastSent(w) = RunningList

FeedInv ==
  /\ FeedTypeOK
  /\ \A w \in Watcher : watch[w].at = "new" => watch[w].queue = <<>>
  /\ \A w \in Watcher : Current(w)

-----------------------------------------------------------------------------
(* RunningFeed: types.                                                       *)

Watching == [at : {"new", "subscribed", "watching", "ended"},
             list : SUBSET Task, queue : Seq(SUBSET Task)]

\* The running list consists of tasks.
LEMMA RunningListType ==
  ASSUME FeedTypeOK
  PROVE  RunningList \subseteq Task
BY DEF FeedTypeOK, RunningList

\* At the start nobody runs and nobody watches.
LEMMA FeedInitInv == FeedInit => FeedInv
<1> SUFFICES ASSUME FeedInit PROVE FeedInv
  OBVIOUS
<1>1. <<>> \in Seq(SUBSET Task) /\ Len(<<>>) <= 1
  OBVIOUS
<1>2. FeedTypeOK
  BY <1>1, FeedAssumption DEF FeedInit, FeedTypeOK, MemberStages
<1>3. \A w \in Watcher : watch[w].at = "new" /\ watch[w].queue = <<>>
  BY DEF FeedInit
<1> QED
  BY <1>2, <1>3 DEF FeedInv, Current

-----------------------------------------------------------------------------
(* RunningFeed: steps of those who change the registry.                      *)

\* A step that neither sends nor touches a watcher keeps what was sent current, if it
\* leaves the list as it is, or leaves somebody who has still to tell.
LEMMA QuietStep ==
  ASSUME FeedInv, FeedTypeOK', UNCHANGED watch,
         Told' /\ ~stale' => Told /\ ~stale /\ RunningList' = RunningList
  PROVE  FeedInv'
<1>1. ASSUME NEW w \in Watcher PROVE Current(w)'
  BY DEF FeedInv, Current, LastSent
<1> QED
  BY <1>1 DEF FeedInv

\* A stage keeps the table of runs typed, and the tasks of the runs.
LEMMA StepKeeps ==
  ASSUME FeedTypeOK, NEW m \in Member, NEW s \in MemberStages, Step(m, s)
  PROVE  /\ member' \in [Member -> [at : MemberStages, task : Task \cup {NoTask}]]
         /\ \A q \in Member : member'[q].task = member[q].task
         /\ \A q \in Member : member'[q].at = IF q = m THEN s ELSE member[q].at
BY DEF FeedTypeOK, Step

\* No step of a run that registers, unregisters or is dropped breaks the invariant.
LEMMA MemberStepKeeps ==
  ASSUME FeedInv, NEW m \in Member, MemberStep(m)
  PROVE  FeedInv'
<1> USE DEF InStage
<1>1. FeedTypeOK
  BY DEF FeedInv
<1>2. CASE Register(m)
  <2>1. PICK t \in Task : member' = [member EXCEPT ![m] = [at |-> "start", task |-> t]]
    BY <1>2 DEF Register
  <2>2. FeedTypeOK'
    BY <1>1, <1>2, <2>1 DEF Register, FeedTypeOK, MemberStages
  <2>3. ~Told'
    BY <1>1, <2>1 DEF Told, FeedTypeOK
  <2> QED
    BY <1>2, <2>2, <2>3, QuietStep DEF Register
<1>3. CASE Unregister(m)
  <2>1. "finish" \in MemberStages
    BY DEF MemberStages
  <2>2. FeedTypeOK'
    BY <1>1, <1>3, <2>1, StepKeeps DEF Unregister, FeedTypeOK
  <2>3. ~Told'
    BY <1>1, <1>3, <2>1, StepKeeps DEF Told, Unregister
  <2> QED
    BY <1>3, <2>2, <2>3, QuietStep DEF Unregister
<1>4. CASE PostEnds(m)
  <2>1. "final" \in MemberStages
    BY DEF MemberStages
  <2>2. FeedTypeOK'
    BY <1>1, <1>4, <2>1, StepKeeps DEF PostEnds, FeedTypeOK
  <2>3. (Told' => Told) /\ RunningList' = RunningList
    BY <1>1, <1>4, <2>1, StepKeeps DEF Told, PostEnds, RunningList, FeedTypeOK
  <2> QED
    BY <1>4, <2>2, <2>3, QuietStep DEF PostEnds
<1>5. CASE Dropped(m)
  <2>1. "over" \in MemberStages
    BY DEF MemberStages
  <2>2. <<>> \in Seq(SUBSET Task) /\ Len(<<>>) <= 1
    OBVIOUS
  <2>3. stale' \in BOOLEAN /\ note' = [note EXCEPT ![m] = <<>>] /\ m \in Changer
    BY <1>1, <1>5 DEF Dropped, FeedTypeOK, Changer
  <2>4. FeedTypeOK'
    BY <1>1, <1>5, <2>1, <2>2, <2>3, StepKeeps DEF Dropped, FeedTypeOK
  <2>5. RunningList' = RunningList
    BY <1>1, <1>5, <2>1, StepKeeps DEF Dropped, RunningList, FeedTypeOK
  <2>6. Told' /\ ~stale' => Told /\ ~stale
    BY <1>1, <1>5, <2>1, StepKeeps DEF Told, Dropped
  <2> QED
    BY <1>5, <2>4, <2>5, <2>6, QuietStep DEF Dropped
<1> QED
  BY <1>2, <1>3, <1>4, <1>5 DEF MemberStep

\* A kill has to tell, or makes the updates stale.
LEMMA KillKeeps ==
  ASSUME FeedInv, NEW k \in Killer, NEW t \in Task, Kill(k, t)
  PROVE  FeedInv'
<1>1. FeedTypeOK
  BY DEF FeedInv
<1>2. FeedTypeOK'
  BY <1>1 DEF Kill, FeedTypeOK
<1>3. ~Told' \/ stale'
  BY <1>1 DEF Kill, Told, FeedTypeOK
<1> QED
  BY <1>2, <1>3, QuietStep DEF Kill

\* Reading the list changes nothing that is sent.
LEMMA ReadListKeeps ==
  ASSUME FeedInv, NEW a \in Changer, ReadList(a)
  PROVE  FeedInv'
<1>1. FeedTypeOK /\ RunningList \in SUBSET Task
  BY RunningListType DEF FeedInv
<1>2. <<RunningList>> \in Seq(SUBSET Task) /\ Len(<<RunningList>>) <= 1
  BY <1>1
<1>3. FeedTypeOK'
  BY <1>1, <1>2 DEF ReadList, FeedTypeOK
<1>4. Told' = Told /\ RunningList' = RunningList
  BY DEF ReadList, Told, RunningList, InStage
<1> QED
  BY <1>3, <1>4, QuietStep DEF ReadList

\* A sequence of at most one element that is not empty.
LEMMA OnlyOne ==
  ASSUME NEW S, NEW q \in Seq(S), Len(q) <= 1, q # <<>>
  PROVE  \E x \in S : q = <<x>>
<1>1. Len(q) \in Nat /\ (Len(q) = 0 => q = <<>>)
  OBVIOUS
<1>2. Len(q) = 1
  BY <1>1
<1>3. q[1] \in S
  BY <1>2
<1>4. q = <<q[1]>>
  BY <1>2
<1> QED
  BY <1>3, <1>4

\* The last element left in a queue is its first.
LEMMA LastLeft ==
  ASSUME NEW S, NEW q \in Seq(S), q # <<>>, Tail(q) = <<>>
  PROVE  q[Len(q)] = Head(q)
<1>1. Len(q) \in Nat /\ Len(q) # 0 /\ Head(q) = q[1]
  OBVIOUS
<1>2. Len(<<>>) = Len(q) - 1
  <2>1. Len(Tail(q)) = Len(q) - 1
    OBVIOUS
  <2> QED
    BY <2>1
<1>3. Len(q) = 1
  <2>1. ASSUME NEW n \in Nat, 0 = n - 1 PROVE n = 1
    BY <2>1
  <2>2. Len(<<>>) = 0
    OBVIOUS
  <2> QED
    BY <1>1, <1>2, <2>1, <2>2
<1> QED
  BY <1>1, <1>3

\* What is appended to a queue is then its last element.
LEMMA Appended ==
  ASSUME NEW q \in Seq(SUBSET Task), NEW x \in SUBSET Task
  PROVE  /\ q \o <<x>> \in Seq(SUBSET Task)
         /\ q \o <<x>> # <<>>
         /\ (q \o <<x>>)[Len(q \o <<x>>)] = x
<1>1. <<x>> \in Seq(SUBSET Task) /\ Len(<<x>>) = 1 /\ <<x>>[1] = x
  OBVIOUS
<1>2. Len(q) \in Nat /\ q \o <<x>> \in Seq(SUBSET Task) /\ Len(q \o <<x>>) = Len(q) + 1
  BY <1>1
<1>3. (q \o <<x>>)[Len(q) + 1] = x
  BY <1>1, <1>2
<1> QED
  BY <1>2, <1>3

\* A list that is sent as it is now makes every watcher current, except those too far behind.
LEMMA SendListKeeps ==
  ASSUME FeedInv, NEW a \in Changer, SendList(a)
  PROVE  FeedInv'
<1>1. FeedTypeOK
  BY DEF FeedInv
<1>2. PICK x \in SUBSET Task : note[a] = <<x>>
  <2>1. note[a] \in Seq(SUBSET Task) /\ Len(note[a]) <= 1 /\ note[a] # <<>>
    BY <1>1 DEF FeedTypeOK, SendList
  <2> QED
    BY <2>1, OnlyOne
<1>3. /\ member' \in [Member -> [at : MemberStages, task : Task \cup {NoTask}]]
      /\ \A q \in Member : member'[q].task = member[q].task
      /\ killer' \in [Killer -> {"new", "list", "over"}]
  <2>1. CASE a \in Member
    <3>1. PICK s \in AfterUpdate(a) : Step(a, s)
      BY <2>1 DEF SendList
    <3>2. s \in MemberStages
      BY <3>1 DEF AfterUpdate, MemberStages
    <3> QED
      BY <1>1, <2>1, <3>1, <3>2, StepKeeps DEF SendList, FeedTypeOK
  <2>2. CASE a \notin Member
    BY <1>1, <2>2 DEF SendList, FeedTypeOK, Changer
  <2> QED
    BY <2>1, <2>2
<1>4. ASSUME NEW w \in Watcher
      PROVE  watch'[w] = IF Subscribed(w) /\ Len(watch[w].queue) <= QueueMax
                         THEN [watch[w] EXCEPT !.queue = @ \o <<x>>] ELSE watch[w]
  BY <1>2 DEF SendList
<1>5. watch' \in [Watcher -> Watching]
  <2>1. ASSUME NEW w \in Watcher PROVE watch'[w] \in Watching
    <3>1. watch[w] \in Watching
      BY <1>1 DEF FeedTypeOK, Watching
    <3>2. watch[w].queue \o <<x>> \in Seq(SUBSET Task)
      BY <3>1, Appended DEF Watching
    <3> QED
      BY <1>4, <3>1, <3>2 DEF Watching
  <2> QED
    BY <2>1 DEF SendList
<1>6. FeedTypeOK'
  <2>1. <<>> \in Seq(SUBSET Task) /\ Len(<<>>) <= 1
    OBVIOUS
  <2>2. /\ note' \in [Changer -> Seq(SUBSET Task)]
        /\ \A b \in Changer : Len(note'[b]) <= 1
    BY <1>1, <2>1 DEF SendList, FeedTypeOK
  <2>3. stale' \in BOOLEAN /\ running' = running
    BY DEF SendList
  <2> QED
    BY <1>1, <1>3, <1>5, <2>2, <2>3 DEF FeedTypeOK, Watching
<1>7. RunningList' = RunningList
  BY <1>1, <1>3 DEF RunningList, SendList, FeedTypeOK
<1>8. ASSUME NEW w \in Watcher, watch'[w].at = "new" PROVE watch'[w].queue = <<>>
  <2>1. watch[w] \in Watching
    BY <1>1 DEF FeedTypeOK, Watching
  <2>2. watch'[w].at = watch[w].at
    BY <1>4, <2>1 DEF Watching
  <2>3. watch'[w] = watch[w]
    BY <1>4, <1>8, <2>2 DEF Subscribed
  <2> QED
    BY <1>8, <2>3 DEF FeedInv
<1>9. ASSUME NEW w \in Watcher PROVE Current(w)'
  <2> SUFFICES ASSUME ~stale', Len(watch'[w].queue) <= QueueMax,
                      watch'[w].at \in {"watching", "subscribed"}
               PROVE  LastSent(w)' = RunningList
    BY <1>7 DEF Current
  <2>1. x = RunningList
    <3>1. <<x>> = <<RunningList>>
      BY <1>2, Zenon DEF SendList
    <3> QED
      BY <3>1
  <2>2. watch[w] \in Watching
    BY <1>1 DEF FeedTypeOK, Watching
  <2>3. watch'[w].at = watch[w].at
    BY <1>4, <2>2 DEF Watching
  <2>4. Subscribed(w) /\ Len(watch[w].queue) <= QueueMax
    BY <1>4, <2>3 DEF Subscribed
  <2>5. watch'[w].queue = watch[w].queue \o <<x>>
    BY <1>4, <2>2, <2>4 DEF Watching
  <2> QED
    BY <2>1, <2>2, <2>5, Appended DEF LastSent, Watching
<1> QED
  BY <1>6, <1>8, <1>9 DEF FeedInv

-----------------------------------------------------------------------------
(* RunningFeed: steps of those who watch.                                    *)

\* The first list is that of the subscription or older than what is on its way; what is
\* taken from the queue is what was sent.
LEMMA WatchStepKeeps ==
  ASSUME FeedInv, NEW w \in Watcher, WatchStep(w)
  PROVE  FeedInv'
<1>1. FeedTypeOK /\ watch[w] \in Watching /\ RunningList \in SUBSET Task
  BY RunningListType DEF FeedInv, FeedTypeOK, Watching
<1>2. PICK new \in Watching :
        /\ watch' = [watch EXCEPT ![w] = new]
        /\ new.at # "new"
        /\ Told /\ ~stale /\ Len(new.queue) <= QueueMax
            /\ (new.at = "watching" \/ (new.at = "subscribed" /\ new.queue # <<>>))
            => IF new.queue = <<>> THEN new.list = RunningList
                                   ELSE new.queue[Len(new.queue)] = RunningList
  <2>1. CASE Subscribe(w)
    <3> DEFINE new == [watch[w] EXCEPT !.at = "subscribed"]
    <3>1. /\ new \in Watching /\ new.at = "subscribed" /\ new.queue = <<>>
          /\ watch' = [watch EXCEPT ![w] = new]
      BY <1>1, <2>1 DEF Subscribe, Watching, FeedInv
    <3> QED
      BY <3>1
  <2>2. CASE InitialList(w)
    <3> DEFINE new == [watch[w] EXCEPT !.at = "watching", !.list = RunningList]
    <3>1. /\ new \in Watching /\ new.at = "watching" /\ new.list = RunningList
          /\ new.queue = watch[w].queue /\ watch[w].at = "subscribed"
          /\ watch' = [watch EXCEPT ![w] = new]
      BY <1>1, <2>2 DEF InitialList, Watching
    <3>2. Current(w)
      BY DEF FeedInv
    <3> HIDE DEF new
    <3> QED
      BY <3>1, <3>2 DEF Current, LastSent
  <2>3. CASE Update(w)
    <3> DEFINE q == watch[w].queue
               new == [at |-> "watching", list |-> Head(q), queue |-> Tail(q)]
               gone == [at |-> "ended", list |-> {}, queue |-> <<>>]
    <3>1. watch[w].at = "watching" /\ q # <<>> /\ q \in Seq(SUBSET Task)
      BY <1>1, <2>3 DEF Update, Watching
    <3>2. /\ Head(q) = q[1] /\ Head(q) \in SUBSET Task /\ Tail(q) \in Seq(SUBSET Task)
          /\ Len(Tail(q)) = Len(q) - 1 /\ Len(q) \in Nat \ {0}
          /\ \A i \in 1..Len(q) - 1 : Tail(q)[i] = q[i + 1]
      BY <3>1
    <3>3. new \in Watching /\ gone \in Watching
      BY <3>2 DEF Watching
    <3>4. watch' = [watch EXCEPT ![w] = IF Len(q) > QueueMax THEN gone ELSE new]
      BY <2>3 DEF Update
    <3>5. CASE Len(q) > QueueMax
      BY <3>3, <3>4, <3>5
    <3>6. CASE ~(Len(q) > QueueMax)
      <4>1. Len(q) <= QueueMax
        BY <3>2, <3>6, FeedAssumption
      <4>2. Told /\ ~stale => q[Len(q)] = RunningList
        BY <3>1, <4>1 DEF FeedInv, Current, LastSent
      <4>3. Tail(q) = <<>> => q[Len(q)] = Head(q)
        BY <3>1, LastLeft
      <4>4. Tail(q) # <<>> => Tail(q)[Len(Tail(q))] = q[Len(q)]
        <5>1. Tail(q) # <<>> => Len(Tail(q)) \in 1..Len(q) - 1
          BY <3>2
        <5> QED
          BY <3>2, <5>1
      <4> QED
        BY <3>3, <3>4, <3>6, <4>2, <4>3, <4>4
    <3> QED
      BY <3>5, <3>6
  <2> QED
    BY <2>1, <2>2, <2>3 DEF WatchStep
<1>3. UNCHANGED <<member, killer, running, note, stale>>
  BY DEF WatchStep, Subscribe, InitialList, Update
<1>4. Told' = Told /\ RunningList' = RunningList
  BY <1>3 DEF Told, RunningList, InStage
<1>5. \A v \in Watcher : watch'[v] = IF v = w THEN new ELSE watch[v]
  BY <1>1, <1>2 DEF FeedTypeOK
<1>6. FeedTypeOK'
  BY <1>1, <1>2, <1>3 DEF FeedTypeOK, Watching
<1>7. ASSUME NEW v \in Watcher PROVE Current(v)' /\ (watch'[v].at = "new" => watch'[v].queue = <<>>)
  <2>1. CASE v = w
    BY <1>2, <1>3, <1>4, <1>5, <2>1 DEF Current, LastSent
  <2>2. CASE v # w
    BY <1>3, <1>4, <1>5, <2>2 DEF FeedInv, Current, LastSent
  <2> QED
    BY <2>1, <2>2
<1> QED
  BY <1>6, <1>7 DEF FeedInv

-----------------------------------------------------------------------------
(* RunningFeed: theorems.                                                    *)

\* No step breaks the invariant.
LEMMA FeedStepKeeps == FeedInv /\ [FeedNext]_feedVars => FeedInv'
<1> SUFFICES ASSUME FeedInv, [FeedNext]_feedVars PROVE FeedInv'
  OBVIOUS
<1>1. CASE UNCHANGED feedVars
  <2>1. Told' = Told /\ RunningList' = RunningList /\ FeedTypeOK'
    BY <1>1 DEF feedVars, Told, RunningList, InStage, FeedInv, FeedTypeOK
  <2> QED
    BY <1>1, <2>1, QuietStep DEF feedVars
<1> QED
  BY <1>1, MemberStepKeeps, KillKeeps, ReadListKeeps, SendListKeeps, WatchStepKeeps
     DEF FeedNext

\* Every variable keeps its type.
THEOREM FeedTypeCorrect == FeedSpec => []FeedTypeOK
<1>1. FeedInv => FeedTypeOK
  BY DEF FeedInv
<1> QED
  BY <1>1, FeedInitInv, FeedStepKeeps, PTL DEF FeedSpec

\* A watcher who has received everything shows the tasks that run (running_tasks), unless
\* the last update was out of date when it was sent, or was never sent.
THEOREM WatcherCurrentHolds == FeedSpec => []WatcherCurrent
<1>1. FeedInv => WatcherCurrent
  <2> SUFFICES ASSUME FeedInv, NEW w \in Watcher, Told, ~stale,
                      watch[w].at = "watching", watch[w].queue = <<>>
               PROVE  watch[w].list = RunningList
    BY DEF WatcherCurrent
  <2>1. Len(watch[w].queue) <= QueueMax
    BY FeedAssumption
  <2> QED
    BY <2>1 DEF FeedInv, Current, LastSent
<1> QED
  BY <1>1, FeedInitInv, FeedStepKeeps, PTL DEF FeedSpec

-----------------------------------------------------------------------------
(* RunOutput: the three together.                                            *)

\* A step of the whole is a step of each component, or leaves it alone.
LEMMA ComponentSteps ==
  [Next]_vars => [StreamNext]_streamVars /\ [FeedNext]_feedVars /\ [TableNext]_tableVars
BY DEF Next, vars

LEMMA ComponentSpecs == Spec => StreamSpec /\ FeedSpec /\ TableSpec
<1>1. Init => StreamInit /\ FeedInit /\ TableInit
  BY DEF Init
<1> QED
  BY <1>1, ComponentSteps, PTL DEF Spec, StreamSpec, FeedSpec, TableSpec

\* Whatever one of the three does, the others keep what they promise: the lines a viewer is
\* shown, the list a watcher shows, and the bound and the newest row of the table.
THEOREM RunOutputKeeps ==
  Spec => [](/\ StreamTypeOK /\ NoLineTwice
             /\ FeedTypeOK /\ WatcherCurrent
             /\ TableTypeOK /\ RowsBounded /\ LatestStartKept)
BY ComponentSpecs, StreamTypeCorrect, NoLineTwiceHolds, FeedTypeCorrect, WatcherCurrentHolds,
   TableTypeCorrect, RowsAreBounded, LatestStartIsKept, PTL
=============================================================================
