----------------------------- MODULE KillSwitch -----------------------------
(* KillSwitch: a daemon that switches a hung phone off.  A timer samples the   *)
(* ports of the keypad; a combination of keys seen at each sample for         *)
(* PRESS_TIMEOUT resets the phone.  Timer and settings: the timer expires in   *)
(* an interrupt, MSG_RECONFIGURE_REQ copies the settings port by port on the   *)
(* interface thread.  Time is in units of the shortest timeout, 100 ms.        *)
EXTENDS Integers, Sequences, FiniteSetsExt

CONSTANTS Configs,     \* settings: TIMER_PERIOD, PRESS_TIMEOUT and keys, one per port
          Downs,       \* what the ports of the keypad can read
          MaxReconfs   \* bound: reconfigurations

\* The settings are unsigned int, in milliseconds; the editor offers 100 to 10000.
\* Up to this one next_timeout * 1000, an int, does not overflow (main.c:51).
MaxSetting == 21474

ASSUME ConfigsAssumption ==
  /\ Configs # {} /\ MaxReconfs \in Nat
  /\ \A c \in Configs : {c.TIMER_PERIOD, c.PRESS_TIMEOUT} \subseteq 0 .. MaxSetting
  /\ \A c, d \in Configs : c.keys \in Seq(Nat) /\ Len(d.keys) = Len(c.keys)

NotPressed == -1
Idle == -1

VARIABLES config,           \* the settings in force
          config_keys,      \* the ports of the combination
          down,             \* the ports now
          until,            \* time to the next sample
          last_press_time,  \* its age, or NotPressed for 0
          updating,         \* the ports update_settings has copied, or Idle
          reset,
          reconfs,
          held,             \* ghost: how long the combination has been down
          gap,              \* ghost: how long it has not been
          sure              \* ghost: time since the end of the last long gap

vars == <<config, config_keys, down, until, last_press_time, updating, reset,
          reconfs, held, gap, sure>>

Larger(a, b) == IF a > b THEN a ELSE b

\* The timeout the timer is set to, not under the least.
Timeout(t) == Larger(t, 1)
Half(c) == c.PRESS_TIMEOUT \div 2

Pressed == \A j \in DOMAIN config_keys : down[j] = config_keys[j]

\* Each reconfiguration can put a sample off by one tick.
LongGap == Max({Timeout(Half(c)) : c \in Configs}) + MaxReconfs
LongestHold ==
  Max({Timeout(c.TIMER_PERIOD) : c \in Configs}) + Max({c.PRESS_TIMEOUT : c \in Configs})
    + LongGap
\* Bound: ages and ghosts stop growing here; nothing compares beyond it.
Old == LongestHold + 1
Aged(t) == IF t < Old THEN t + 1 ELSE t

Init ==
  /\ config \in Configs /\ config_keys = config.keys
  /\ down \in Downs
  /\ until = 1                              \* NU_Create_Timer, one tick
  /\ last_press_time = NotPressed
  /\ updating = Idle /\ reset = FALSE /\ reconfs = 0
  /\ held = 0 /\ gap = 0 /\ sure = 0

\* The ghosts when no time passes: a hold or a gap ends, or goes on.
Noted ==
  /\ held' = IF Pressed' THEN held ELSE 0
  /\ gap' = IF Pressed' THEN 0 ELSE gap
  /\ UNCHANGED sure

Tick ==
  /\ until > 0 /\ updating = Idle
  /\ until' = until - 1
  /\ last_press_time' = IF last_press_time = NotPressed THEN NotPressed ELSE Aged(last_press_time)
  /\ held' = IF Pressed THEN Aged(held) ELSE 0
  /\ gap' = IF Pressed THEN 0 ELSE Aged(gap)
  /\ sure' = IF gap' > LongGap THEN 0 ELSE Aged(sure)
  /\ UNCHANGED <<config, config_keys, down, updating, reset, reconfs>>

Keys ==
  /\ down' \in Downs \ {down}
  /\ UNCHANGED <<config, config_keys, until, last_press_time, updating, reset, reconfs>>
  /\ Noted

\* Mutant: the release is not noted.
ForgetsRelease ==
  /\ until = 0
  /\ last_press_time' = IF Pressed /\ last_press_time = NotPressed THEN 0 ELSE last_press_time
  /\ reset' = (Pressed /\ last_press_time' >= config.PRESS_TIMEOUT)
  /\ until' = Timeout(IF Pressed THEN Half(config) ELSE config.TIMER_PERIOD)
  /\ UNCHANGED <<config, config_keys, down, updating, reconfs, held, gap, sure>>

on_timer_expire ==
  /\ until = 0
  /\ last_press_time' = IF ~Pressed THEN NotPressed
                        ELSE IF last_press_time = NotPressed THEN 0 ELSE last_press_time
  /\ reset' = (Pressed /\ last_press_time' >= config.PRESS_TIMEOUT)
  /\ until' = Timeout(IF Pressed THEN Half(config) ELSE config.TIMER_PERIOD)
  /\ UNCHANGED <<config, config_keys, down, updating, reconfs, held, gap, sure>>

\* MSG_RECONFIGURE_REQ: the settings are read at once, whole or the ones in
\* memory; then each port of the combination; then the timer is restarted.
InitConfig ==
  /\ updating = Idle /\ reconfs < MaxReconfs
  /\ config' \in Configs
  /\ updating' = 0 /\ reconfs' = reconfs + 1
  /\ UNCHANGED <<config_keys, down, until, last_press_time, reset, held, gap, sure>>

update_settings ==
  /\ updating \in 0 .. Len(config_keys) - 1
  /\ updating' = updating + 1
  /\ config_keys' = [config_keys EXCEPT ![updating + 1] = config.keys[updating + 1]]
  /\ UNCHANGED <<config, down, until, last_press_time, reset, reconfs>>
  /\ Noted

RestartTimer ==
  /\ updating = Len(config_keys)
  /\ updating' = Idle
  /\ until' = 1
  /\ UNCHANGED <<config, config_keys, down, last_press_time, reset, reconfs, held, gap, sure>>

Next ==
  /\ ~reset
  /\ Tick \/ Keys \/ on_timer_expire \/ InitConfig \/ update_settings \/ RestartTimer

Spec == Init /\ [][Next]_vars

-----------------------------------------------------------------------------
\* The phone is reset only when the combination has been down for PRESS_TIMEOUT
\* with no gap longer than the time between two samples: a release of that
\* length is always seen, whatever the settings were changed to meanwhile.  And
\* whoever holds the combination long enough gets the reset: one period until it
\* is first seen, PRESS_TIMEOUT, and the rest of half of it until the next sample
\* (on_timer_expire, KillSwitch/main.c:24-52).
ResetWhenHeld ==
  IF reset THEN sure >= config.PRESS_TIMEOUT ELSE held <= LongestHold
=============================================================================
