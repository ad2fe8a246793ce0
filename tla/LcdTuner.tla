------------------------------ MODULE LcdTuner ------------------------------
(* LCD_JBT6K71_Tuner: keys change the settings of the display, and a timer     *)
(* starts a job on the helper thread that writes them to the display when they *)
(* are new or when the firmware has initialised the display again.  The job    *)
(* does nothing while the bus to the display is busy, and tries again.         *)
EXTENDS Integers

CONSTANTS N,           \* how many settings there are
          Top,         \* the largest value of a setting (0xF)
          Start,       \* their values when the program starts
          Supported,   \* the phone is one the program knows
          MaxKeys,     \* bound: keys pressed
          MaxReinits   \* bound: times the firmware initialises the display

VARIABLES display_values,      \* the settings as the keys left them
          curr_display_index,  \* the one the keys change
          ac_mode,
          old_reinit_cnt,      \* the display's count at the last write, or -1
          error,
          timer,               \* the timer runs
          jobs,                \* jobs waiting on the helper thread
          job,                 \* the count the running job read, or NoJob
          open,                \* the program's window is there
          reinit_cnt,          \* how often the display was initialised
          lcd,                 \* the settings the display has
          keys                 \* bound: keys pressed so far

vars == <<display_values, curr_display_index, ac_mode, old_reinit_cnt, error, timer,
          jobs, job, open,  reinit_cnt, lcd, keys>>

NoJob == -2
Registers == 0 .. N - 1
Firmware == [r \in Registers |-> 0]      \* what the display has after its initialisation
Settings == [values |-> display_values, ac |-> ac_mode]
Initial == [values |-> Firmware, ac |-> FALSE]

\* The display was initialised when the phone was switched on.
Init ==
  /\ display_values = Start
  /\ curr_display_index = 0
  /\ ac_mode = TRUE
  /\ old_reinit_cnt = 0 /\ error = FALSE
  /\ timer = TRUE /\ jobs = 0 /\ job = NoJob /\ open = TRUE
  /\ reinit_cnt = 1 /\ lcd = Initial
  /\ keys = 0

\* on_timer: the timer is started again for the next job.
on_timer ==
  /\ timer /\ jobs = 0                  \* bound: one job waits at a time
  /\ jobs' = 1
  /\ UNCHANGED <<display_values, curr_display_index, ac_mode, old_reinit_cnt, error,
                 timer, job, open,  reinit_cnt, lcd, keys>>

\* test_lcd up to the comparison: the model of the phone, the display's count.
TestLcd ==
  /\ job = NoJob /\ jobs > 0
  /\ jobs' = jobs - 1
  /\ error' = (error \/ ~Supported)
  /\ job' = IF Supported /\ old_reinit_cnt # reinit_cnt THEN reinit_cnt ELSE NoJob
  /\ UNCHANGED <<display_values, curr_display_index, ac_mode, old_reinit_cnt, timer,
                 open,  reinit_cnt, lcd, keys>>

\* The rest of it, with interrupts off.  The bus is busy: nothing is written.
\* The mutant notes the count all the same.
NotedAnyway ==
  /\ job # NoJob
  /\ old_reinit_cnt' = job /\ job' = NoJob
  /\ UNCHANGED <<display_values, curr_display_index, ac_mode, error, timer, jobs, open,
                 reinit_cnt, lcd, keys>>

WriteBusy ==
  /\ job # NoJob
  /\ job' = NoJob
  /\ UNCHANGED <<display_values, curr_display_index, ac_mode, old_reinit_cnt, error,
                 timer, jobs, open, reinit_cnt, lcd, keys>>

\* The bus is free: all registers are written, and then the count is noted.
WriteFree ==
  /\ job # NoJob
  /\ lcd' = Settings
  /\ old_reinit_cnt' = job /\ job' = NoJob
  /\ UNCHANGED <<display_values, curr_display_index, ac_mode, error, timer, jobs, open,
                 reinit_cnt, keys>>

\* gui_onkey on the interface thread, which the helper does not interrupt: every
\* key asks for a write.
Key ==
  /\ open /\ keys < MaxKeys
  /\ old_reinit_cnt' = -1
  /\ keys' = keys + 1
  /\ \/ /\ \E turn \in {1, N - 1} :                        \* right, left
             curr_display_index' = (curr_display_index + turn) % N
        /\ UNCHANGED <<display_values, ac_mode>>
     \/ \E step \in {-1, 1} :                            \* down, up
          LET v == display_values[curr_display_index] + step
          IN display_values' = [display_values EXCEPT
               ![curr_display_index] = IF v < 0 THEN 0 ELSE IF v > Top THEN Top ELSE v]
        /\ UNCHANGED <<curr_display_index, ac_mode>>
     \/ ac_mode' = ~ac_mode /\ UNCHANGED <<display_values, curr_display_index>>   \* 9
  /\ UNCHANGED <<error, timer, jobs, job, open,  reinit_cnt, lcd>>

\* The right soft key closes the window, and the timer with it; a job may be
\* waiting or running.
Close ==
  /\ open /\ keys < MaxKeys
  /\ old_reinit_cnt' = -1
  /\ keys' = keys + 1
  /\ open' = FALSE /\ timer' = FALSE
  /\ UNCHANGED <<display_values, curr_display_index, ac_mode, error, jobs, job,
                 reinit_cnt, lcd>>

\* The firmware initialises the display, which loses the settings.
Reinit ==
  /\ reinit_cnt <= MaxReinits
  /\ reinit_cnt' = reinit_cnt + 1 /\ lcd' = Initial
  /\ UNCHANGED <<display_values, curr_display_index, ac_mode, old_reinit_cnt, error,
                 timer, jobs, job, open, keys>>

Next == on_timer \/ TestLcd \/ WriteBusy \/ WriteFree \/ Key \/ Close \/ Reinit

Spec == Init /\ [][Next]_vars

\* The timer and the helper thread go on, and a job finds the bus free again and
\* again if it keeps coming.
Fairness ==
  /\ WF_vars(on_timer) /\ WF_vars(TestLcd)
  /\ WF_vars(WriteBusy \/ WriteFree) /\ SF_vars(WriteFree)

-----------------------------------------------------------------------------
\* However the keys, the busy bus and the firmware's initialisations fall between
\* the steps of the jobs, the display ends with the settings the keys left, as
\* long as the window is open (test_lcd, LCD_JBT6K71_Tuner/main.c:40-118).
SettingsReachLcd == <>[](open /\ Supported => lcd = Settings)
=============================================================================
