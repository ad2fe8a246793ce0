------------------------------ MODULE MCTools ------------------------------
(* The small programs beside BalletMini on small instances.  They share        *)
(* nothing, and each behaviour is about the one chosen at the start.           *)
EXTENDS KillSwitch

CONSTANTS N, Top, Supported, MaxKeys, MaxReinits,          \* LcdTuner
          Size, Chunk,                                     \* FlashBenchmark
          MaxFont, LastSymbol, Icons, Moving,              \* FontExtractor
          Height, ScreenW, ScreenH, MaxRedraws

\* Times in ticks of 100 ms; the combinations press one key on each of two ports.
MCConfigs == {[TIMER_PERIOD |-> 4, PRESS_TIMEOUT |-> 6, keys |-> <<1, 1>>],
              [TIMER_PERIOD |-> 2, PRESS_TIMEOUT |-> 3, keys |-> <<2, 2>>]}
MCDowns == {<<0, 0>>, <<1, 1>>, <<2, 2>>, <<2, 1>>}

MCStart == [r \in 0 .. N - 1 |-> 1]

\* Two symbols in three look the same in both fonts, as unassigned ones do.
MCWidth == [i \in 0 .. LastSymbol |-> IF i % 3 = 0 THEN 2 ELSE 1]
MCBitmap == [f \in 0 .. MaxFont |-> [i \in 0 .. LastSymbol |->
               IF i % 3 = 1 THEN "box" ELSE IF i = LastSymbol THEN "last"
               ELSE IF f = 0 THEN "plain" ELSE "bold"]]

VARIABLES chosen,
          display_values, curr_display_index, ac_mode, old_reinit_cnt, error, timer,
          jobs, job, lcdOpen, reinit_cnt, lcd, pressed,
          state, type, disk, chunk, helper, buffer, moved, failed, file, bypass, benchOpen,
          g_state, g_unicode_off, g_font, prev_bitmap, screen, redraws, printed, extra,
          disturbed

Lcd == INSTANCE LcdTuner WITH Start <- MCStart, open <- lcdOpen, keys <- pressed
Bench == INSTANCE FlashBenchmark WITH open <- benchOpen
Font == INSTANCE FontExtractor WITH Width <- MCWidth, Bitmap <- MCBitmap

lcdVars == <<display_values, curr_display_index, ac_mode, old_reinit_cnt, error, timer,
             jobs, job, lcdOpen, reinit_cnt, lcd, pressed>>
benchVars == <<state, type, disk, chunk, helper, buffer, moved, failed, file, bypass, benchOpen>>
fontVars == <<g_state, g_unicode_off, g_font, prev_bitmap, screen, redraws, printed, extra,
              disturbed>>

\* The programs not chosen stand still; they start in one state.
MCInit ==
  /\ chosen \in {"KillSwitch", "LcdTuner", "FlashBenchmark", "FontExtractor"}
  /\ Init /\ Lcd!Init /\ Bench!Init /\ Font!Init
  /\ chosen # "KillSwitch" => config.TIMER_PERIOD = 4 /\ down = <<0, 0>>
  /\ chosen # "FlashBenchmark" => file = [d \in Bench!Disks |-> Bench!NoFile]

MCNext ==
  /\ UNCHANGED chosen
  /\ CASE chosen = "KillSwitch" -> Next /\ UNCHANGED <<lcdVars, benchVars, fontVars>>
       [] chosen = "LcdTuner" -> Lcd!Next /\ UNCHANGED <<vars, benchVars, fontVars>>
       [] chosen = "FlashBenchmark" -> Bench!Next /\ UNCHANGED <<vars, lcdVars, fontVars>>
       [] OTHER -> Font!Next /\ UNCHANGED <<vars, lcdVars, benchVars>>

\* LcdTuner's fairness, and nothing of the others.
OfLcd(A) == chosen = "LcdTuner" /\ A

MCSpec ==
  /\ MCInit /\ [][MCNext]_<<chosen, vars, lcdVars, benchVars, fontVars>>
  /\ WF_lcdVars(OfLcd(Lcd!on_timer)) /\ WF_lcdVars(OfLcd(Lcd!TestLcd))
  /\ WF_lcdVars(OfLcd(Lcd!WriteBusy \/ Lcd!WriteFree)) /\ SF_lcdVars(OfLcd(Lcd!WriteFree))

-----------------------------------------------------------------------------
\* The settings the keys left reach the display and stay there (test_lcd,
\* LCD_JBT6K71_Tuner/main.c:40-118).
SettingsReachLcd == chosen = "LcdTuner" => Lcd!SettingsReachLcd

\* No key disturbs a running test, and a result stands for all the bytes
\* (benchmark and gui_onkey, FlashBenchmark/main.c:57-137 and 269-370).
MeasuresSafely == Bench!MeasuresSafely

\* Every symbol of every font is printed once, in order, with its own bitmap, and
\* every icon by both redraws (gui_onredraw, FontExtractor/main.c:52-192).
FontsWhole == Font!FontsWhole
=============================================================================
