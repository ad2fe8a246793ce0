---------------------------- MODULE ToolsProofs ----------------------------
(***************************************************************************)
(* Proofs about the small programs, which MCTools puts side by side:       *)
(* FlashBenchmark, for every size of the test, and KillSwitch.             *)
(***************************************************************************)
EXTENDS MCTools, WellFoundedInduction, TLAPS

-----------------------------------------------------------------------------
(***************************************************************************)
(* The two threads share bench_state without a lock.  What keeps them      *)
(* apart is that the state the keys read says where the helper is: it is   *)
(* PREPARING or WORKING exactly while the helper has a job and no result   *)
(* yet, and every key but those of another state leaves it alone then.     *)
(***************************************************************************)
InStep ==
  /\ state \in {Bench!NONE, Bench!DONE, Bench!SELECT_CHUNK, Bench!ERROR, Bench!DEBUG,
                Bench!PREPARING, Bench!WORKING}
  /\ helper \in {"idle", "called", "opening", "moving", "ending", "freeing"}
  /\ state = Bench!PREPARING <=> helper \in {"called", "opening"}
  /\ state = Bench!WORKING <=> helper \in {"moving", "ending"}

\* The buffer is the chunk's and the window is there for the whole of a test.
Equipped ==
  /\ helper \in {"called", "opening", "moving", "ending"} => benchOpen
  /\ helper \in {"opening", "moving", "ending"} => buffer = chunk

\* An error ends the test, and a test without one ends with Size bytes moved.
Accounted ==
  /\ helper \in {"opening", "moving"} => ~failed
  /\ helper = "ending" => failed \/ moved >= Size
  /\ state = Bench!DONE => moved >= Size /\ ~failed

TestInv == InStep /\ Equipped /\ Accounted

-----------------------------------------------------------------------------
\* A key leaves a running test alone, and Enter starts one only when the helper
\* has none (gui_onkey, FlashBenchmark/main.c:269-370).
LEMMA KeysKeep ==
  ASSUME TestInv,
         \/ Bench!RightSoft \/ Bench!Clock \/ Bench!Debug \/ Bench!ChangeChunk \/ Bench!Enter
         \/ \E t \in {"write", "read"}, d \in Bench!Disks : Bench!Choose(t, d)
  PROVE  TestInv'
<1> USE DEF TestInv, InStep, Equipped, Accounted,
            Bench!NONE, Bench!DONE, Bench!SELECT_CHUNK, Bench!ERROR, Bench!DEBUG,
            Bench!PREPARING, Bench!WORKING
<1>1. CASE Bench!RightSoft
  BY <1>1 DEF Bench!RightSoft
<1>2. CASE Bench!Clock
  BY <1>2 DEF Bench!Clock
<1>3. CASE Bench!Debug
  BY <1>3 DEF Bench!Debug
<1>4. CASE Bench!ChangeChunk
  <2>1. UNCHANGED <<state, helper, buffer, moved, failed, benchOpen>> /\ state = Bench!SELECT_CHUNK
    BY <1>4 DEF Bench!ChangeChunk
  <2>2. helper \in {"idle", "freeing"}
    BY <2>1
  <2> QED  BY <2>1, <2>2
<1>5. CASE Bench!Enter
  BY <1>5 DEF Bench!Enter
<1>6. CASE \E t \in {"write", "read"}, d \in Bench!Disks : Bench!Choose(t, d)
  BY <1>6 DEF Bench!Choose
<1> QED  BY <1>1, <1>2, <1>3, <1>4, <1>5, <1>6

\* A step of the helper takes the state along (benchmark,
\* FlashBenchmark/main.c:50-137).
LEMMA HelperKeeps ==
  ASSUME TestInv,
         \/ Bench!Allocate \/ Bench!OpenFile \/ Bench!Move
         \/ Bench!MovedAll \/ Bench!Result \/ Bench!Free
  PROVE  TestInv'
<1> USE DEF TestInv, InStep, Equipped, Accounted,
            Bench!NONE, Bench!DONE, Bench!SELECT_CHUNK, Bench!ERROR, Bench!DEBUG,
            Bench!PREPARING, Bench!WORKING
<1>1. CASE Bench!Allocate
  BY <1>1 DEF Bench!Allocate
<1>2. CASE Bench!OpenFile
  <2>1. \/ helper' = "moving" /\ failed' = failed
        \/ helper' = "ending" /\ failed' = TRUE
    BY <1>2 DEF Bench!OpenFile
  <2> QED  BY <1>2, <2>1 DEF Bench!OpenFile
<1>3. CASE Bench!Move
  <2>1. \/ helper' = helper /\ failed' = failed
        \/ helper' = "ending" /\ failed' = TRUE
    BY <1>3 DEF Bench!Move
  <2>2. helper = "moving" /\ UNCHANGED <<state, chunk, buffer, benchOpen>>
    BY <1>3 DEF Bench!Move
  <2> QED  BY <2>1, <2>2
<1>4. CASE Bench!MovedAll
  BY <1>4 DEF Bench!MovedAll
<1>5. CASE Bench!Result
  BY <1>5 DEF Bench!Result
<1>6. CASE Bench!Free
  BY <1>6 DEF Bench!Free
<1> QED  BY <1>1, <1>2, <1>3, <1>4, <1>5, <1>6

\* The run's programs share nothing, so a step of it is one of FlashBenchmark or leaves
\* it alone.  While the helper moves data its buffer has the size of the chunk it passes
\* to _write and _read and the program is not unloaded, and a result shown as done
\* stands for at least Size bytes (benchmark and gui_onkey,
\* FlashBenchmark/main.c:50-137 and 269-370).
THEOREM TestIsSafe == MCSpec => []MeasuresSafely
<1>1. MCInit => TestInv
  BY DEF MCInit, Bench!Init, TestInv, InStep, Equipped, Accounted, Bench!NONE, Bench!DONE,
         Bench!SELECT_CHUNK, Bench!ERROR, Bench!DEBUG, Bench!PREPARING, Bench!WORKING
<1>2. TestInv /\ [MCNext]_<<chosen, vars, lcdVars, benchVars, fontVars>> => TestInv'
  <2> SUFFICES ASSUME TestInv, [MCNext]_<<chosen, vars, lcdVars, benchVars, fontVars>>
               PROVE  TestInv'
    OBVIOUS
  <2>1. Bench!Next \/ UNCHANGED benchVars
    BY DEF MCNext
  <2>2. CASE UNCHANGED benchVars
    BY <2>2 DEF benchVars, TestInv, InStep, Equipped, Accounted
  <2>3. CASE Bench!Next
    BY <2>3, KeysKeep, HelperKeeps DEF Bench!Next
  <2> QED  BY <2>1, <2>2, <2>3
<1>3. TestInv => MeasuresSafely
  BY DEF TestInv, Equipped, Accounted, MeasuresSafely, Bench!MeasuresSafely, Bench!DONE
<1> QED  BY <1>1, <1>2, <1>3, PTL DEF MCSpec

-----------------------------------------------------------------------------
(***************************************************************************)
(* KillSwitch: resets when held, whatever the settings and however often   *)
(* they change.                                                            *)
(***************************************************************************)

\* A bounded set of naturals has a greatest element.
LEMMA MaxOfBounded ==
  ASSUME NEW S \in SUBSET Nat, S # {}, NEW b \in Nat, \A x \in S : x <= b
  PROVE  /\ Max(S) \in S
         /\ \A x \in S : x <= Max(S)
<1> DEFINE Bounds == {n \in Nat : \A x \in S : x <= n}
           Less == {ss \in Nat \X Nat : ss[1] < ss[2]}
<1>0. IsWellFoundedOn(Less, Nat)
  BY NatLessThanWellFounded DEF OpToRel
<1>1. PICK u \in Bounds : \A n \in Bounds : <<n, u>> \notin Less
  <2>1. Bounds \subseteq Nat /\ b \in Bounds
    OBVIOUS
  <2>2. Bounds # {}
    BY <2>1
  <2> HIDE DEF Bounds, Less
  <2> QED  BY <1>0, <2>1, <2>2, WFMin
<1>2. \A n \in Bounds : u <= n
  <2> SUFFICES ASSUME NEW n \in Bounds, n < u PROVE FALSE
    OBVIOUS
  <2>1. <<n, u>> \in Nat \X Nat /\ <<n, u>>[1] < <<n, u>>[2]
    OBVIOUS
  <2>2. <<n, u>> \in Less
    BY <2>1
  <2> QED  BY <1>1, <2>2
<1>3. u \in S
  <2> SUFFICES ASSUME u \notin S PROVE FALSE
    OBVIOUS
  <2>1. PICK y \in S : TRUE
    OBVIOUS
  <2>2. u - 1 \in Bounds
    BY <2>1
  <2> QED  BY <1>2, <2>2
<1>4. \E x \in S : \A y \in S : x >= y
  BY <1>3
<1> QED  BY <1>4 DEF Max

\* The parts of the bounds, and the ticks by which reconfigurations can have put
\* the next sample off so far.
MaxGap == Max({Timeout(Half(c)) : c \in Configs})
MaxPeriod == Max({Timeout(c.TIMER_PERIOD) : c \in Configs})
MaxPress == Max({c.PRESS_TIMEOUT : c \in Configs})
Late == IF updating = Idle THEN reconfs ELSE reconfs - 1

LEMMA Settings ==
  /\ MaxGap \in Nat /\ MaxPeriod \in Nat /\ MaxPress \in Nat
  /\ LongGap = MaxGap + MaxReconfs /\ LongestHold = MaxPeriod + MaxPress + LongGap
  /\ Old = LongestHold + 1
  /\ \A c \in Configs :
       /\ c.TIMER_PERIOD \in Nat /\ c.PRESS_TIMEOUT \in Nat
       /\ c.PRESS_TIMEOUT <= MaxPress
       /\ Timeout(c.TIMER_PERIOD) \in 1 .. MaxPeriod
       /\ Timeout(Half(c)) \in 1 .. MaxGap
<1> DEFINE Gaps == {Timeout(Half(c)) : c \in Configs}
           Periods == {Timeout(c.TIMER_PERIOD) : c \in Configs}
           Presses == {c.PRESS_TIMEOUT : c \in Configs}
<1>1. \A c \in Configs : /\ c.TIMER_PERIOD \in 0 .. MaxSetting
                         /\ c.PRESS_TIMEOUT \in 0 .. MaxSetting
  BY ConfigsAssumption
<1>0. MaxSetting \in Nat /\ MaxSetting > 0
  BY SMT DEF MaxSetting
<1>2. ASSUME NEW t \in 0 .. MaxSetting
      PROVE  Timeout(t) \in 1 .. MaxSetting /\ t \div 2 \in 0 .. MaxSetting
  BY <1>0, SMT DEF Timeout, Larger
<1>3. \A c \in Configs : /\ Timeout(Half(c)) \in 1 .. MaxSetting
                         /\ Timeout(c.TIMER_PERIOD) \in 1 .. MaxSetting
  BY <1>1, <1>2 DEF Half
<1>4. MaxSetting \in Nat /\ Configs # {}
  BY <1>0, ConfigsAssumption
<1>5. /\ Gaps \in SUBSET Nat /\ Gaps # {} /\ \A x \in Gaps : x <= MaxSetting
      /\ Periods \in SUBSET Nat /\ Periods # {} /\ \A x \in Periods : x <= MaxSetting
      /\ Presses \in SUBSET Nat /\ Presses # {} /\ \A x \in Presses : x <= MaxSetting
  BY <1>1, <1>3, <1>4
<1>6. \A c \in Configs : /\ Timeout(Half(c)) \in Gaps /\ Timeout(c.TIMER_PERIOD) \in Periods
                         /\ c.PRESS_TIMEOUT \in Presses
  OBVIOUS
<1>7. MaxGap = Max(Gaps) /\ MaxPeriod = Max(Periods) /\ MaxPress = Max(Presses)
  BY DEF MaxGap, MaxPeriod, MaxPress
<1> HIDE DEF Gaps, Periods, Presses
<1>8. /\ MaxGap \in Gaps /\ \A x \in Gaps : x <= MaxGap
      /\ MaxPeriod \in Periods /\ \A x \in Periods : x <= MaxPeriod
      /\ MaxPress \in Presses /\ \A x \in Presses : x <= MaxPress
  BY <1>4, <1>5, <1>7, MaxOfBounded
<1>9. MaxGap \in Nat /\ MaxPeriod \in Nat /\ MaxPress \in Nat
  BY <1>5, <1>8
<1>10. LongGap = MaxGap + MaxReconfs /\ LongestHold = MaxPeriod + MaxPress + LongGap
  BY DEF LongGap, LongestHold, MaxGap, MaxPeriod, MaxPress
<1> QED  BY <1>1, <1>3, <1>6, <1>8, <1>9, <1>10 DEF Old

HoldTypes ==
  /\ config \in Configs /\ until \in Nat /\ reset \in BOOLEAN
  /\ reconfs \in 0 .. MaxReconfs
  /\ config_keys \in Seq(Nat) /\ Len(config_keys) = Len(config.keys)
  /\ updating = Idle \/ (updating \in Nat /\ reconfs > 0)
  /\ last_press_time \in {NotPressed} \cup 0 .. Old
  /\ held \in 0 .. Old /\ gap \in 0 .. Old /\ sure \in 0 .. Old

\* A hold and a gap exclude each other.
OneOrOther == IF Pressed THEN gap = 0 ELSE held = 0

\* While the combination counts as seen, no gap has outlasted the time to the next
\* sample, so the age of the sighting is covered, and a hold is seen within a
\* period of its start; the next sample comes within half of PRESS_TIMEOUT.
Sighted ==
  /\ last_press_time # NotPressed =>
       /\ last_press_time <= sure
       /\ gap + until <= MaxGap + Late
       /\ held <= last_press_time + MaxPeriod + Late
  /\ last_press_time = NotPressed => held + until <= MaxPeriod + Late
  /\ held + until <= MaxPeriod + MaxPress + MaxGap + Late

HoldInv ==
  /\ HoldTypes
  /\ OneOrOther
  /\ IF reset THEN sure >= config.PRESS_TIMEOUT ELSE Sighted

LEMMA HoldHolds == HoldInv => ResetWhenHeld
BY Settings, ConfigsAssumption
   DEF HoldInv, HoldTypes, Sighted, ResetWhenHeld, Late, Idle, NotPressed

LEMMA HoldInit == Init => HoldInv
<1> SUFFICES ASSUME Init PROVE HoldInv
  OBVIOUS
<1>1. config \in Configs /\ MaxPeriod >= 1 /\ MaxGap >= 1 /\ MaxReconfs \in Nat
  BY Settings, ConfigsAssumption DEF Init
<1>2. MaxGap \in Nat /\ MaxPeriod \in Nat /\ MaxPress \in Nat /\ Old \in Nat
  BY Settings, ConfigsAssumption
<1>3. HoldTypes
  <2>1. reset \in BOOLEAN
    BY DEF Init
  <2>2. reconfs \in 0 .. MaxReconfs
    BY <1>1 DEF Init
  <2>3. held \in 0 .. Old /\ gap \in 0 .. Old /\ sure \in 0 .. Old
    BY <1>2 DEF Init
  <2>4. config_keys \in Seq(Nat) /\ config_keys = config.keys
    BY <1>1, ConfigsAssumption DEF Init
  <2> QED  BY <1>1, <2>1, <2>2, <2>3, <2>4 DEF Init, HoldTypes
<1>4. OneOrOther
  BY DEF Init, OneOrOther
<1>5. Sighted
  BY <1>1, <1>2 DEF Init, Sighted, Late
<1> QED
  BY <1>3, <1>4, <1>5 DEF Init, HoldInv

LEMMA HoldStep == HoldInv /\ [Next]_vars => HoldInv'
<1> SUFFICES ASSUME HoldInv, [Next]_vars PROVE HoldInv'
  OBVIOUS
<1>0. /\ MaxReconfs \in Nat /\ MaxGap \in Nat /\ MaxPeriod \in Nat /\ MaxPress \in Nat
      /\ LongGap = MaxGap + MaxReconfs /\ LongestHold = MaxPeriod + MaxPress + LongGap
      /\ Old = LongestHold + 1
  BY Settings, ConfigsAssumption
<1> USE <1>0
<1>1. CASE UNCHANGED vars
  BY <1>1 DEF vars, HoldInv, HoldTypes, OneOrOther, Sighted, Late, Pressed
<1> SUFFICES ASSUME Next PROVE HoldInv'
  BY <1>1
<1>2. ~ reset /\ HoldTypes /\ OneOrOther /\ Sighted
  BY DEF Next, HoldInv
<1>3. CASE Tick
  <2>1. Pressed' = Pressed /\ Late' = Late /\ Late \in 0 .. MaxReconfs
    BY <1>2, <1>3 DEF Tick, Pressed, Late, HoldTypes, Idle
  <2>2. HoldTypes' /\ OneOrOther'
    BY <1>2, <1>3, <2>1 DEF Tick, HoldTypes, OneOrOther, Aged, Idle, NotPressed
  <2>3. held' <= held + 1 /\ gap' <= gap + 1
    BY <1>2, <1>3 DEF Tick, HoldTypes, Aged
  <2>4. CASE last_press_time = NotPressed
    BY <1>2, <1>3, <2>1, <2>2, <2>3, <2>4
       DEF Tick, HoldTypes, Sighted, HoldInv, Idle, NotPressed
  <2>5. CASE last_press_time # NotPressed
    <3>1. gap' <= LongGap
      BY <1>2, <1>3, <2>1, <2>3, <2>5 DEF Tick, HoldTypes, Sighted
    <3>2. sure' = Aged(sure) /\ last_press_time' = Aged(last_press_time)
      BY <1>2, <1>3, <2>5, <3>1 DEF Tick, HoldTypes
    <3>3. last_press_time' <= sure'
      BY <1>2, <2>5, <3>2 DEF HoldTypes, Sighted, Aged, NotPressed
    <3>4. held' <= last_press_time' + MaxPeriod + Late
      BY <1>2, <2>1, <2>2, <2>3, <2>5, <3>2 DEF HoldTypes, Sighted, Aged, NotPressed
    <3> QED
      BY <1>2, <1>3, <2>1, <2>2, <2>3, <2>5, <3>2, <3>3, <3>4
         DEF Tick, HoldTypes, Sighted, HoldInv, Aged, Idle, NotPressed
  <2> QED  BY <2>4, <2>5
<1>4. CASE Keys
  BY <1>2, <1>4 DEF Keys, Noted, HoldTypes, OneOrOther, Sighted, HoldInv, Late, Idle, NotPressed
<1>5. CASE on_timer_expire
  <2>1. Pressed' = Pressed /\ Late' = Late /\ Late \in 0 .. MaxReconfs
    BY <1>2, <1>5 DEF on_timer_expire, Pressed, Late, HoldTypes, Idle
  <2>0. /\ config.PRESS_TIMEOUT \in Nat /\ config.PRESS_TIMEOUT <= MaxPress
        /\ Timeout(config.TIMER_PERIOD) \in 1 .. MaxPeriod
        /\ Timeout(Half(config)) \in 1 .. MaxGap
    BY <1>2, Settings DEF HoldTypes
  <2>2. CASE Pressed
    <3>1. until' \in 1 .. MaxGap /\ gap = 0 /\ last_press_time' # NotPressed
      BY <1>2, <1>5, <2>0, <2>2 DEF on_timer_expire, OneOrOther, HoldTypes, NotPressed
    <3>2. /\ last_press_time' \in 0 .. Old /\ last_press_time' <= sure
          /\ held <= last_press_time' + MaxPeriod + Late
      BY <1>2, <1>5, <2>1, <2>2 DEF on_timer_expire, HoldTypes, Sighted, NotPressed
    <3>3. reset' = (last_press_time' >= config.PRESS_TIMEOUT)
      BY <1>5, <2>2 DEF on_timer_expire
    <3>4. HoldTypes' /\ OneOrOther'
      BY <1>2, <1>5, <2>1, <3>1, <3>2, <3>3 DEF on_timer_expire, HoldTypes, OneOrOther
    <3>5. CASE last_press_time' >= config.PRESS_TIMEOUT
      <4>1. sure \in Nat /\ sure >= config.PRESS_TIMEOUT
        BY <1>2, <2>0, <3>2, <3>5 DEF HoldTypes
      <4>2. reset' /\ sure' = sure /\ config' = config
        BY <1>5, <3>3, <3>5 DEF on_timer_expire
      <4> QED  BY <3>4, <4>1, <4>2, Zenon DEF HoldInv
    <3>6. CASE ~ (last_press_time' >= config.PRESS_TIMEOUT)
      BY <1>2, <1>5, <2>0, <2>1, <3>1, <3>2, <3>3, <3>4, <3>6
         DEF on_timer_expire, HoldTypes, HoldInv, Sighted
    <3> QED  BY <3>5, <3>6
  <2>3. CASE ~ Pressed
    BY <1>2, <1>5, <2>0, <2>1, <2>3
       DEF on_timer_expire, HoldTypes, OneOrOther, Sighted, HoldInv, Idle, NotPressed
  <2> QED  BY <2>2, <2>3
<1>6. CASE InitConfig
  <2>1. Late' = Late /\ reconfs' \in 0 .. MaxReconfs
    BY <1>2, <1>6 DEF InitConfig, HoldTypes, Late, Idle
  <2>2. Len(config_keys') = Len(config'.keys)
    <3>1. config \in Configs /\ config' \in Configs
      BY <1>2, <1>6 DEF InitConfig, HoldTypes
    <3> QED  BY <1>2, <1>6, <3>1, ConfigsAssumption DEF InitConfig, HoldTypes
  <2>3. HoldTypes'
    BY <1>2, <1>6, <2>1, <2>2 DEF InitConfig, HoldTypes
  <2>4. OneOrOther' /\ ~ reset'
    BY <1>2, <1>6 DEF InitConfig, OneOrOther, Pressed
  <2>5. Sighted'
    BY <1>2, <1>6, <2>1 DEF InitConfig, Sighted
  <2> QED  BY <2>3, <2>4, <2>5, Zenon DEF HoldInv
<1>7. CASE update_settings
  <2>1. updating \in Nat /\ updating # Idle /\ updating' = updating + 1
    BY <1>2, <1>7 DEF update_settings, HoldTypes, Idle
  <2>0. config_keys' \in Seq(Nat) /\ Len(config_keys') = Len(config'.keys)
    <3>1. config.keys \in Seq(Nat) /\ Len(config.keys) = Len(config_keys)
      BY <1>2, ConfigsAssumption DEF HoldTypes
    <3>2. updating + 1 \in 1 .. Len(config_keys) /\ config_keys \in Seq(Nat)
      BY <1>2, <1>7, <2>1 DEF update_settings, HoldTypes
    <3>3. config.keys[updating + 1] \in Nat
      BY <3>1, <3>2
    <3> QED  BY <1>7, <3>1, <3>2, <3>3 DEF update_settings
  <2>2. Late' = Late /\ HoldTypes'
    BY <1>2, <1>7, <2>0, <2>1 DEF update_settings, HoldTypes, Noted, Late, Idle
  <2>3. held' <= held /\ gap' <= gap
    BY <1>2, <1>7 DEF update_settings, Noted, HoldTypes
  <2>4. OneOrOther' /\ (Pressed' => gap' = 0) /\ (~ Pressed' => held' = 0)
    BY <1>7 DEF update_settings, Noted, OneOrOther
  <2>5. Sighted'
    BY <1>2, <1>7, <2>2, <2>3
       DEF update_settings, HoldTypes, Sighted, Noted, Late, Idle, NotPressed
  <2>6. ~ reset'
    BY <1>2, <1>7 DEF update_settings
  <2> QED  BY <2>2, <2>4, <2>5, <2>6, Zenon DEF HoldInv
<1>8. CASE RestartTimer
  <2>1. updating # Idle
    <3>1. Len(config_keys) \in Nat
      BY <1>2 DEF HoldTypes
    <3> QED  BY <1>8, <3>1 DEF RestartTimer, Idle
  <2>2. Late' = Late + 1 /\ HoldTypes'
    BY <1>2, <1>8, <2>1 DEF RestartTimer, HoldTypes, Late
  <2>3. Sighted'
    BY <1>2, <1>8, <2>2 DEF RestartTimer, HoldTypes, Sighted, Late, Idle, NotPressed
  <2>4. OneOrOther' /\ ~ reset'
    BY <1>2, <1>8 DEF RestartTimer, OneOrOther, Pressed
  <2> QED  BY <2>2, <2>3, <2>4, Zenon DEF HoldInv
<1> QED  BY <1>3, <1>4, <1>5, <1>6, <1>7, <1>8 DEF Next

\* The phone is reset only after PRESS_TIMEOUT with no gap longer than that between
\* two samples, and nobody holds the combination longer than LongestHold without
\* the reset (on_timer_expire, KillSwitch/main.c:24-52).
THEOREM ResetsWhenHeld == Spec => []ResetWhenHeld
BY HoldInit, HoldStep, HoldHolds, PTL DEF Spec
=============================================================================
