----------------------- MODULE ObserverSupervisorProofs -----------------------
(***************************************************************************)
(* Theorems about ObserverSupervisor, for any number of commands and ids.   *)
(***************************************************************************)
EXTENDS ObserverSupervisor, TLAPS

Live == {"script", "observer", "stopping"}
Busy(c) == pc[c] # "idle"

-----------------------------------------------------------------------------
(* The inductive invariant.                                                 *)

\* No id that a command holds has come to name another program.
HeldInv == \A c \in Commands : \A p \in pid[c] : process[p] # "other"

\* What commands that do not overlap keep true: one command at a time, and
\* between its steps the file, its variable and the processes agree.
OneBusy == \A c, d \in Commands : Busy(c) /\ Busy(d) => c = d

LiveInv ==
  \A p \in Pids : process[p] \in Live =>
    pidFile = {p} \/ \E c \in Commands : pc[c] = "record" /\ pid[c] = {p}

ScriptInv ==
  \A p \in Pids : process[p] = "script" =>
    \E c \in Commands : pc[c] \in {"record", "settle"} /\ pid[c] = {p}

HoldsInv ==
  \A c \in Commands : pc[c] \in {"settle", "kill", "wait"} => pidFile = pid[c]

NoneInv ==
  \A c \in Commands : pc[c] \in {"launch", "forget"} => \A p \in Pids : process[p] \notin Live

RecordInv == \A c \in Commands : pc[c] = "record" => pidFile = NoPid

Orderly == OneBusy /\ LiveInv /\ ScriptInv /\ HoldsInv /\ NoneInv /\ RecordInv

IInv == TypeOK /\ HeldInv /\ (~tangled => Orderly)

\* Nothing runs and there is no file at first.
LEMMA InitInv == Init => IInv
  BY DEF Init, IInv, TypeOK, HeldInv, Orderly, OneBusy, LiveInv, ScriptInv, HoldsInv, NoneInv,
         RecordInv, Busy, Live, NoPid, Named, Places

\* A command that sees no observer, while it is the only one, is right.
LEMMA NotRunning ==
  ASSUME TypeOK, Orderly, ~Running, NEW c \in Commands, pc[c] \in {"start", "stop", "status"}
  PROVE  \A p \in Pids : process[p] \notin Live
<1> SUFFICES ASSUME NEW p \in Pids, process[p] \in Live PROVE FALSE
  OBVIOUS
<1>1. \A d \in Commands : pc[d] \notin {"record", "settle"}
  BY DEF Orderly, OneBusy, Busy
<1>2. process[p] # "script" /\ pidFile = {p}
  BY <1>1 DEF Orderly, ScriptInv, LiveInv
<1> QED
  BY <1>2 DEF Running, Live

-----------------------------------------------------------------------------
(* One lemma per action: it preserves the invariant.                        *)

LEMMA BeginStep ==
  ASSUME IInv, NEW c \in Commands, Begin(c)
  PROVE  IInv'
<1>1. TypeOK'
  BY DEF IInv, Begin, Goes, TypeOK, Named, NoPid, Places
<1>2. HeldInv'
  BY DEF IInv, Begin, Goes, TypeOK, Named, NoPid, HeldInv
<1>3. ASSUME ~tangled' PROVE Orderly'
  <2>1. OneBusy'
    <3>1. \A d \in Commands \ {c} : pc[d] = "idle" /\ pc'[d] = "idle"
      BY <1>3 DEF Begin, Goes, IInv, TypeOK
    <3> QED
      BY <3>1 DEF OneBusy, Busy
  <2>2. LiveInv'
    BY <1>3 DEF IInv, Begin, Goes, TypeOK, Orderly, LiveInv, Live
  <2>3. ScriptInv'
    BY <1>3 DEF IInv, Begin, Goes, TypeOK, Orderly, ScriptInv
  <2>4. HoldsInv'
    BY <1>3 DEF IInv, Begin, Goes, TypeOK, Orderly, HoldsInv
  <2>5. NoneInv'
    BY <1>3 DEF IInv, Begin, Goes, TypeOK, Orderly, NoneInv, Live
  <2>6. RecordInv'
    BY <1>3 DEF IInv, Begin, Goes, TypeOK, Orderly, RecordInv
  <2> QED
    BY <2>1, <2>2, <2>3, <2>4, <2>5, <2>6 DEF Orderly
<1> QED
  BY <1>1, <1>2, <1>3 DEF IInv

LEMMA CheckStartStep ==
  ASSUME IInv, NEW c \in Commands, CheckStart(c)
  PROVE  IInv'
<1>1. TypeOK'
  BY DEF IInv, CheckStart, Goes, Ends, TypeOK, Named, NoPid, Places
<1>2. HeldInv'
  BY DEF IInv, CheckStart, Goes, Ends, TypeOK, Named, NoPid, HeldInv
<1>3. ASSUME ~tangled' PROVE Orderly'
  <2>1. OneBusy'
    BY <1>3 DEF IInv, CheckStart, Goes, Ends, TypeOK, Orderly, OneBusy, Busy
  <2>2. LiveInv'
    BY <1>3 DEF IInv, CheckStart, Goes, Ends, TypeOK, Orderly, LiveInv, Live
  <2>3. ScriptInv'
    BY <1>3 DEF IInv, CheckStart, Goes, Ends, TypeOK, Orderly, ScriptInv
  <2>4. HoldsInv'
    BY <1>3 DEF IInv, CheckStart, Goes, Ends, TypeOK, Orderly, HoldsInv
  <2>5. NoneInv'
    BY <1>3, NotRunning
       DEF IInv, CheckStart, Goes, Ends, TypeOK, Named, NoPid, Orderly, OneBusy, LiveInv,
           ScriptInv, HoldsInv, NoneInv, Busy, Live
  <2>6. RecordInv'
    BY <1>3 DEF IInv, CheckStart, Goes, Ends, TypeOK, Orderly, RecordInv
  <2> QED
    BY <2>1, <2>2, <2>3, <2>4, <2>5, <2>6 DEF Orderly
<1> QED
  BY <1>1, <1>2, <1>3 DEF IInv

LEMMA LaunchStep ==
  ASSUME IInv, NEW c \in Commands, Launch(c)
  PROVE  IInv'
<1>1. TypeOK'
  BY DEF IInv, Launch, Goes, Held, TypeOK, Named, NoPid, Places
<1>2. HeldInv'
  BY DEF IInv, Launch, Goes, Held, TypeOK, Named, NoPid, HeldInv
<1>3. ASSUME ~tangled' PROVE Orderly'
  <2>1. OneBusy'
    BY <1>3 DEF IInv, Launch, Goes, Held, TypeOK, Orderly, OneBusy, Busy
  <2>2. LiveInv'
    BY <1>3
       DEF IInv, Launch, Goes, Held, TypeOK, Named, NoPid, Orderly, OneBusy, LiveInv, HoldsInv,
           NoneInv, RecordInv, Busy, Live
  <2>3. ScriptInv'
    BY <1>3 DEF IInv, Launch, Goes, Held, TypeOK, Orderly, ScriptInv
  <2>4. HoldsInv'
    BY <1>3 DEF IInv, Launch, Goes, Held, TypeOK, Named, NoPid, Orderly, OneBusy, HoldsInv, Busy
  <2>5. NoneInv'
    BY <1>3
       DEF IInv, Launch, Goes, Held, TypeOK, Named, NoPid, Orderly, OneBusy, LiveInv, ScriptInv,
           HoldsInv, NoneInv, Busy, Live
  <2>6. RecordInv'
    BY <1>3 DEF IInv, Launch, Goes, Held, TypeOK, Orderly, RecordInv
  <2> QED
    BY <2>1, <2>2, <2>3, <2>4, <2>5, <2>6 DEF Orderly
<1> QED
  BY <1>1, <1>2, <1>3 DEF IInv

LEMMA RecordStep ==
  ASSUME IInv, NEW c \in Commands, Record(c)
  PROVE  IInv'
<1>1. TypeOK'
  BY DEF IInv, Record, Goes, TypeOK, Named, NoPid, Places
<1>2. HeldInv'
  BY DEF IInv, Record, Goes, TypeOK, Named, NoPid, HeldInv
<1>3. ASSUME ~tangled' PROVE Orderly'
  <2>1. OneBusy'
    BY <1>3 DEF IInv, Record, Goes, TypeOK, Orderly, OneBusy, Busy
  <2>2. LiveInv'
    BY <1>3
       DEF IInv, Record, Goes, TypeOK, Named, NoPid, Orderly, OneBusy, LiveInv, HoldsInv,
           NoneInv, RecordInv, Busy, Live
  <2>3. ScriptInv'
    BY <1>3 DEF IInv, Record, Goes, TypeOK, Orderly, ScriptInv
  <2>4. HoldsInv'
    BY <1>3 DEF IInv, Record, Goes, TypeOK, Named, NoPid, Orderly, OneBusy, HoldsInv, Busy
  <2>5. NoneInv'
    BY <1>3 DEF IInv, Record, Goes, TypeOK, Orderly, NoneInv, Live
  <2>6. RecordInv'
    BY <1>3 DEF IInv, Record, Goes, TypeOK, Named, NoPid, Orderly, OneBusy, RecordInv, Busy
  <2> QED
    BY <2>1, <2>2, <2>3, <2>4, <2>5, <2>6 DEF Orderly
<1> QED
  BY <1>1, <1>2, <1>3 DEF IInv

LEMMA SettleStep ==
  ASSUME IInv, NEW c \in Commands, Settle(c)
  PROVE  IInv'
<1>1. TypeOK'
  BY DEF IInv, Settle, Goes, Ends, Lives, Alive, Executing, TypeOK, Named, NoPid, Places
<1>2. HeldInv'
  BY DEF IInv, Settle, Goes, Ends, Lives, Alive, Executing, TypeOK, Named, NoPid, HeldInv
<1>3. ASSUME ~tangled' PROVE Orderly'
  <2>1. OneBusy'
    BY <1>3 DEF IInv, Settle, Goes, Ends, Lives, Alive, Executing, TypeOK, Orderly, OneBusy, Busy
  <2>2. LiveInv'
    BY <1>3 DEF IInv, Settle, Goes, Ends, Lives, Alive, Executing, TypeOK, Orderly, LiveInv, Live
  <2>3. ScriptInv'
    BY <1>3 DEF IInv, Settle, Goes, Ends, Lives, Alive, Executing, TypeOK, Orderly, ScriptInv
  <2>4. HoldsInv'
    BY <1>3 DEF IInv, Settle, Goes, Ends, Lives, Alive, Executing, TypeOK, Orderly, HoldsInv
  <2>5. NoneInv'
    BY <1>3
       DEF IInv, Settle, Goes, Ends, Lives, Alive, Executing, TypeOK, Named, NoPid, Orderly,
           OneBusy, LiveInv, ScriptInv, HoldsInv, NoneInv, Busy, Live
  <2>6. RecordInv'
    BY <1>3 DEF IInv, Settle, Goes, Ends, Lives, Alive, Executing, TypeOK, Orderly, RecordInv
  <2> QED
    BY <2>1, <2>2, <2>3, <2>4, <2>5, <2>6 DEF Orderly
<1> QED
  BY <1>1, <1>2, <1>3 DEF IInv

LEMMA CheckStopStep ==
  ASSUME IInv, NEW c \in Commands, CheckStop(c)
  PROVE  IInv'
<1>1. TypeOK'
  BY DEF IInv, CheckStop, Goes, Running, TypeOK, Named, NoPid, Places
<1>2. HeldInv'
  BY DEF IInv, CheckStop, Goes, Running, TypeOK, Named, NoPid, HeldInv
<1>3. ASSUME ~tangled' PROVE Orderly'
  <2>1. OneBusy'
    BY <1>3 DEF IInv, CheckStop, Goes, Running, TypeOK, Orderly, OneBusy, Busy
  <2>2. LiveInv'
    BY <1>3 DEF IInv, CheckStop, Goes, Running, TypeOK, Orderly, LiveInv, Live
  <2>3. ScriptInv'
    BY <1>3 DEF IInv, CheckStop, Goes, Running, TypeOK, Orderly, ScriptInv
  <2>4. HoldsInv'
    BY <1>3 DEF IInv, CheckStop, Goes, Running, TypeOK, Orderly, HoldsInv
  <2>5. NoneInv'
    BY <1>3, NotRunning
       DEF IInv, CheckStop, Goes, Running, TypeOK, Named, NoPid, Orderly, OneBusy, LiveInv,
           ScriptInv, HoldsInv, NoneInv, Busy, Live
  <2>6. RecordInv'
    BY <1>3 DEF IInv, CheckStop, Goes, Running, TypeOK, Orderly, RecordInv
  <2> QED
    BY <2>1, <2>2, <2>3, <2>4, <2>5, <2>6 DEF Orderly
<1> QED
  BY <1>1, <1>2, <1>3 DEF IInv

LEMMA KillStep ==
  ASSUME IInv, NEW c \in Commands, Kill(c)
  PROVE  IInv'
<1>1. TypeOK'
  BY DEF IInv, Kill, Goes, Aborts, Lives, Alive, TypeOK, Named, NoPid, Places
<1>2. HeldInv'
  BY DEF IInv, Kill, Goes, Aborts, Lives, Alive, TypeOK, Named, NoPid, HeldInv
<1>3. ASSUME ~tangled' PROVE Orderly'
  <2>1. OneBusy'
    BY <1>3 DEF IInv, Kill, Goes, Aborts, Lives, Alive, TypeOK, Orderly, OneBusy, Busy
  <2>2. LiveInv'
    BY <1>3
       DEF IInv, Kill, Goes, Aborts, Lives, Alive, TypeOK, Named, NoPid, Orderly, OneBusy,
           LiveInv, HoldsInv, NoneInv, RecordInv, Busy, Live
  <2>3. ScriptInv'
    BY <1>3 DEF IInv, Kill, Goes, Aborts, Lives, Alive, TypeOK, Orderly, ScriptInv
  <2>4. HoldsInv'
    BY <1>3 DEF IInv, Kill, Goes, Aborts, Lives, Alive, TypeOK, Orderly, HoldsInv
  <2>5. NoneInv'
    BY <1>3
       DEF IInv, Kill, Goes, Aborts, Lives, Alive, TypeOK, Named, NoPid, Orderly, OneBusy,
           LiveInv, ScriptInv, HoldsInv, NoneInv, Busy, Live
  <2>6. RecordInv'
    BY <1>3 DEF IInv, Kill, Goes, Aborts, Lives, Alive, TypeOK, Orderly, RecordInv
  <2> QED
    BY <2>1, <2>2, <2>3, <2>4, <2>5, <2>6 DEF Orderly
<1> QED
  BY <1>1, <1>2, <1>3 DEF IInv

LEMMA WaitStep ==
  ASSUME IInv, NEW c \in Commands, Wait(c)
  PROVE  IInv'
<1>1. TypeOK'
  BY DEF IInv, Wait, Goes, Lives, Alive, TypeOK, Named, NoPid, Places
<1>2. HeldInv'
  BY DEF IInv, Wait, Goes, Lives, Alive, TypeOK, Named, NoPid, HeldInv
<1>3. ASSUME ~tangled' PROVE Orderly'
  <2>1. OneBusy'
    BY <1>3 DEF IInv, Wait, Goes, Lives, Alive, TypeOK, Orderly, OneBusy, Busy
  <2>2. LiveInv'
    BY <1>3 DEF IInv, Wait, Goes, Lives, Alive, TypeOK, Orderly, LiveInv, Live
  <2>3. ScriptInv'
    BY <1>3 DEF IInv, Wait, Goes, Lives, Alive, TypeOK, Orderly, ScriptInv
  <2>4. HoldsInv'
    BY <1>3 DEF IInv, Wait, Goes, Lives, Alive, TypeOK, Orderly, HoldsInv
  <2>5. NoneInv'
    BY <1>3
       DEF IInv, Wait, Goes, Lives, Alive, TypeOK, Named, NoPid, Orderly, OneBusy, LiveInv,
           ScriptInv, HoldsInv, NoneInv, Busy, Live
  <2>6. RecordInv'
    BY <1>3 DEF IInv, Wait, Goes, Lives, Alive, TypeOK, Orderly, RecordInv
  <2> QED
    BY <2>1, <2>2, <2>3, <2>4, <2>5, <2>6 DEF Orderly
<1> QED
  BY <1>1, <1>2, <1>3 DEF IInv

LEMMA GiveUpStep ==
  ASSUME IInv, NEW c \in Commands, GiveUp(c)
  PROVE  IInv'
<1>1. TypeOK'
  BY DEF IInv, GiveUp, Goes, Aborts, Lives, TypeOK, Named, NoPid, Places
<1>2. HeldInv'
  BY DEF IInv, GiveUp, Goes, Aborts, Lives, TypeOK, Named, NoPid, HeldInv
<1>3. ASSUME ~tangled' PROVE Orderly'
  <2>1. OneBusy'
    BY <1>3 DEF IInv, GiveUp, Goes, Aborts, Lives, TypeOK, Orderly, OneBusy, Busy
  <2>2. LiveInv'
    BY <1>3 DEF IInv, GiveUp, Goes, Aborts, Lives, TypeOK, Orderly, LiveInv, Live
  <2>3. ScriptInv'
    BY <1>3 DEF IInv, GiveUp, Goes, Aborts, Lives, TypeOK, Orderly, ScriptInv
  <2>4. HoldsInv'
    BY <1>3 DEF IInv, GiveUp, Goes, Aborts, Lives, TypeOK, Orderly, HoldsInv
  <2>5. NoneInv'
    BY <1>3 DEF IInv, GiveUp, Goes, Aborts, Lives, TypeOK, Orderly, NoneInv, Live
  <2>6. RecordInv'
    BY <1>3 DEF IInv, GiveUp, Goes, Aborts, Lives, TypeOK, Orderly, RecordInv
  <2> QED
    BY <2>1, <2>2, <2>3, <2>4, <2>5, <2>6 DEF Orderly
<1> QED
  BY <1>1, <1>2, <1>3 DEF IInv

LEMMA ForgetStep ==
  ASSUME IInv, NEW c \in Commands, Forget(c)
  PROVE  IInv'
<1>1. TypeOK'
  BY DEF IInv, Forget, Ends, TypeOK, Named, NoPid, Places
<1>2. HeldInv'
  BY DEF IInv, Forget, Ends, TypeOK, Named, NoPid, HeldInv
<1>3. ASSUME ~tangled' PROVE Orderly'
  <2>1. OneBusy'
    BY <1>3 DEF IInv, Forget, Ends, TypeOK, Orderly, OneBusy, Busy
  <2>2. LiveInv'
    BY <1>3
       DEF IInv, Forget, Ends, TypeOK, Named, NoPid, Orderly, OneBusy, LiveInv, HoldsInv,
           NoneInv, RecordInv, Busy, Live
  <2>3. ScriptInv'
    BY <1>3 DEF IInv, Forget, Ends, TypeOK, Orderly, ScriptInv
  <2>4. HoldsInv'
    BY <1>3 DEF IInv, Forget, Ends, TypeOK, Named, NoPid, Orderly, OneBusy, HoldsInv, Busy
  <2>5. NoneInv'
    BY <1>3 DEF IInv, Forget, Ends, TypeOK, Orderly, NoneInv, Live
  <2>6. RecordInv'
    BY <1>3 DEF IInv, Forget, Ends, TypeOK, Orderly, RecordInv
  <2> QED
    BY <2>1, <2>2, <2>3, <2>4, <2>5, <2>6 DEF Orderly
<1> QED
  BY <1>1, <1>2, <1>3 DEF IInv

LEMMA CheckStatusStep ==
  ASSUME IInv, NEW c \in Commands, CheckStatus(c)
  PROVE  IInv'
<1>1. TypeOK'
  BY DEF IInv, CheckStatus, Goes, Ends, TypeOK, Named, NoPid, Places
<1>2. HeldInv'
  BY DEF IInv, CheckStatus, Goes, Ends, TypeOK, Named, NoPid, HeldInv
<1>3. ASSUME ~tangled' PROVE Orderly'
  <2>1. OneBusy'
    BY <1>3 DEF IInv, CheckStatus, Goes, Ends, TypeOK, Orderly, OneBusy, Busy
  <2>2. LiveInv'
    BY <1>3 DEF IInv, CheckStatus, Goes, Ends, TypeOK, Orderly, LiveInv, Live
  <2>3. ScriptInv'
    BY <1>3 DEF IInv, CheckStatus, Goes, Ends, TypeOK, Orderly, ScriptInv
  <2>4. HoldsInv'
    BY <1>3 DEF IInv, CheckStatus, Goes, Ends, TypeOK, Orderly, HoldsInv
  <2>5. NoneInv'
    BY <1>3, NotRunning
       DEF IInv, CheckStatus, Goes, Ends, TypeOK, Named, NoPid, Orderly, OneBusy, LiveInv,
           ScriptInv, HoldsInv, NoneInv, Busy, Live
  <2>6. RecordInv'
    BY <1>3 DEF IInv, CheckStatus, Goes, Ends, TypeOK, Orderly, RecordInv
  <2> QED
    BY <2>1, <2>2, <2>3, <2>4, <2>5, <2>6 DEF Orderly
<1> QED
  BY <1>1, <1>2, <1>3 DEF IInv

LEMMA InterruptStep ==
  ASSUME IInv, NEW c \in Commands, Interrupt(c)
  PROVE  IInv'
<1>1. TypeOK'
  BY DEF IInv, Interrupt, Goes, Aborts, Executing, TypeOK, Named, NoPid, Places
<1>2. HeldInv'
  BY DEF IInv, Interrupt, Goes, Aborts, Executing, TypeOK, Named, NoPid, HeldInv
<1>3. ASSUME ~tangled' PROVE Orderly'
  <2>1. OneBusy'
    BY <1>3 DEF IInv, Interrupt, Goes, Aborts, Executing, TypeOK, Orderly, OneBusy, Busy
  <2>2. LiveInv'
    BY <1>3 DEF IInv, Interrupt, Goes, Aborts, Executing, TypeOK, Orderly, LiveInv, Live
  <2>3. ScriptInv'
    BY <1>3 DEF IInv, Interrupt, Goes, Aborts, Executing, TypeOK, Orderly, ScriptInv
  <2>4. HoldsInv'
    BY <1>3 DEF IInv, Interrupt, Goes, Aborts, Executing, TypeOK, Orderly, HoldsInv
  <2>5. NoneInv'
    BY <1>3 DEF IInv, Interrupt, Goes, Aborts, Executing, TypeOK, Orderly, NoneInv, Live
  <2>6. RecordInv'
    BY <1>3 DEF IInv, Interrupt, Goes, Aborts, Executing, TypeOK, Orderly, RecordInv
  <2> QED
    BY <2>1, <2>2, <2>3, <2>4, <2>5, <2>6 DEF Orderly
<1> QED
  BY <1>1, <1>2, <1>3 DEF IInv

LEMMA ExecStep ==
  ASSUME IInv, NEW p \in Pids, Exec(p)
  PROVE  IInv'
<1>1. TypeOK'
  BY DEF IInv, Exec, Becomes, TypeOK, Named, NoPid, Places
<1>2. HeldInv'
  BY DEF IInv, Exec, Becomes, TypeOK, Named, NoPid, HeldInv
<1>3. ASSUME ~tangled' PROVE Orderly'
  <2>1. OneBusy'
    BY <1>3 DEF IInv, Exec, Becomes, TypeOK, Orderly, OneBusy, Busy
  <2>2. LiveInv'
    BY <1>3 DEF IInv, Exec, Becomes, TypeOK, Orderly, LiveInv, Live
  <2>3. ScriptInv'
    BY <1>3 DEF IInv, Exec, Becomes, TypeOK, Orderly, ScriptInv
  <2>4. HoldsInv'
    BY <1>3 DEF IInv, Exec, Becomes, TypeOK, Orderly, HoldsInv
  <2>5. NoneInv'
    BY <1>3 DEF IInv, Exec, Becomes, TypeOK, Orderly, NoneInv, Live
  <2>6. RecordInv'
    BY <1>3 DEF IInv, Exec, Becomes, TypeOK, Orderly, RecordInv
  <2> QED
    BY <2>1, <2>2, <2>3, <2>4, <2>5, <2>6 DEF Orderly
<1> QED
  BY <1>1, <1>2, <1>3 DEF IInv

LEMMA DiesStep ==
  ASSUME IInv, NEW p \in Pids, Dies(p)
  PROVE  IInv'
<1>1. TypeOK'
  BY DEF IInv, Dies, Becomes, Alive, TypeOK, Named, NoPid, Places
<1>2. HeldInv'
  BY DEF IInv, Dies, Becomes, Alive, TypeOK, Named, NoPid, HeldInv
<1>3. ASSUME ~tangled' PROVE Orderly'
  <2>1. OneBusy'
    BY <1>3 DEF IInv, Dies, Becomes, Alive, TypeOK, Orderly, OneBusy, Busy
  <2>2. LiveInv'
    BY <1>3 DEF IInv, Dies, Becomes, Alive, TypeOK, Orderly, LiveInv, Live
  <2>3. ScriptInv'
    BY <1>3 DEF IInv, Dies, Becomes, Alive, TypeOK, Orderly, ScriptInv
  <2>4. HoldsInv'
    BY <1>3 DEF IInv, Dies, Becomes, Alive, TypeOK, Orderly, HoldsInv
  <2>5. NoneInv'
    BY <1>3 DEF IInv, Dies, Becomes, Alive, TypeOK, Orderly, NoneInv, Live
  <2>6. RecordInv'
    BY <1>3 DEF IInv, Dies, Becomes, Alive, TypeOK, Orderly, RecordInv
  <2> QED
    BY <2>1, <2>2, <2>3, <2>4, <2>5, <2>6 DEF Orderly
<1> QED
  BY <1>1, <1>2, <1>3 DEF IInv

LEMMA ReusedStep ==
  ASSUME IInv, NEW p \in Pids, Reused(p)
  PROVE  IInv'
<1>1. TypeOK'
  BY DEF IInv, Reused, Becomes, Held, TypeOK, Named, NoPid, Places
<1>2. HeldInv'
  BY DEF IInv, Reused, Becomes, Held, TypeOK, Named, NoPid, HeldInv
<1>3. ASSUME ~tangled' PROVE Orderly'
  <2>1. OneBusy'
    BY <1>3 DEF IInv, Reused, Becomes, Held, TypeOK, Orderly, OneBusy, Busy
  <2>2. LiveInv'
    BY <1>3 DEF IInv, Reused, Becomes, Held, TypeOK, Orderly, LiveInv, Live
  <2>3. ScriptInv'
    BY <1>3 DEF IInv, Reused, Becomes, Held, TypeOK, Orderly, ScriptInv
  <2>4. HoldsInv'
    BY <1>3 DEF IInv, Reused, Becomes, Held, TypeOK, Orderly, HoldsInv
  <2>5. NoneInv'
    BY <1>3 DEF IInv, Reused, Becomes, Held, TypeOK, Orderly, NoneInv, Live
  <2>6. RecordInv'
    BY <1>3 DEF IInv, Reused, Becomes, Held, TypeOK, Orderly, RecordInv
  <2> QED
    BY <2>1, <2>2, <2>3, <2>4, <2>5, <2>6 DEF Orderly
<1> QED
  BY <1>1, <1>2, <1>3 DEF IInv

\* The invariant is inductive.
LEMMA NextInv == IInv /\ [Next]_vars => IInv'
<1> SUFFICES ASSUME IInv, [Next]_vars PROVE IInv'
  OBVIOUS
<1>1. ASSUME NEW c \in Commands, Command(c) PROVE IInv'
  BY <1>1, BeginStep, CheckStartStep, LaunchStep, RecordStep, SettleStep, CheckStopStep, KillStep,
     WaitStep, GiveUpStep, ForgetStep, CheckStatusStep, InterruptStep DEF Command
<1>2. ASSUME NEW p \in Pids, Exec(p) \/ Dies(p) \/ Reused(p) PROVE IInv'
  BY <1>2, ExecStep, DiesStep, ReusedStep
<1>3. CASE UNCHANGED vars
  BY <1>3
     DEF vars, IInv, TypeOK, HeldInv, Orderly, OneBusy, LiveInv, ScriptInv, HoldsInv, NoneInv,
              RecordInv, Busy, Live, Named, NoPid, Places
<1> QED
  BY <1>1, <1>2, <1>3 DEF Next

\* The invariant, from which the theorems below follow.
THEOREM Invariance == Spec => []IInv
  BY InitInv, NextInv, PTL DEF Spec

-----------------------------------------------------------------------------
(* Theorems.                                                                *)

\* The variables of the script and of the processes keep their types.
THEOREM TypeCorrect == Spec => []TypeOK
<1>1. IInv => TypeOK
  BY DEF IInv
<1> QED
  BY <1>1, Invariance, PTL

\* Commands that do not overlap keep one observer at most, and the file names it.
THEOREM OneObserver == Spec => []SingleNamedObserver
<1>1. IInv => SingleNamedObserver
  BY DEF IInv, Orderly, LiveInv, Live, SingleNamedObserver
<1> QED
  BY <1>1, Invariance, PTL

\* Of the steps that change a process, Kill alone makes one stop.
LEMMA KillStepSpares ==
  ASSUME IInv, [Next]_vars, NEW p \in Pids, process[p] = "other"
  PROVE  process'[p] # "stopping"
<1>1. ASSUME NEW c \in Commands, Kill(c) PROVE process'[p] # "stopping"
  BY <1>1 DEF Kill, IInv, HeldInv, TypeOK
<1>2. ASSUME NEW c \in Commands, Launch(c) PROVE process'[p] # "stopping"
  BY <1>2 DEF Launch, IInv, TypeOK
<1>3. ASSUME NEW q \in Pids, Exec(q) \/ Dies(q) \/ Reused(q) PROVE process'[p] # "stopping"
  BY <1>3 DEF Exec, Dies, Reused, Becomes, IInv, TypeOK
<1>4. CASE UNCHANGED process
  BY <1>4
<1> QED
  BY <1>1, <1>2, <1>3, <1>4
     DEF Next, Command, Begin, CheckStart, Record, Settle, CheckStop, Wait, GiveUp, Forget,
         CheckStatus, Interrupt, vars

\* No stop kills a program that is not the observer, however commands overlap.
THEOREM OthersAreSpared == Spec => StopSparesOthers
<1>1. IInv /\ [Next]_vars => \A p \in Pids : process[p] = "other" => process'[p] # "stopping"
  BY KillStepSpares
<1> QED
  BY <1>1, Invariance, PTL DEF Spec, StopSparesOthers
===============================================================================
