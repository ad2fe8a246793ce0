--------------------------- MODULE FlashBenchmark ---------------------------
(* FlashBenchmark: keys choose a test on the interface thread; the helper      *)
(* thread runs it with a buffer of the chosen chunk.  Both read and write      *)
(* bench_state without a lock.                                                 *)
EXTENDS Integers

CONSTANTS Size,        \* bytes of a test
          Chunk        \* the chunk a test starts with

VARIABLES state,       \* bench_state.state
          type, disk, chunk,     \* bench_state.params
          helper,      \* what the helper does: nothing, has the job, moves data,
                       \* has the result on the screen and its buffer to free
          buffer,      \* the bytes of its buffer, 0 without one
          moved,       \* written or readed of the running test
          failed,      \* error of the running test
          file,        \* the bytes of test.bin on each disk, or NoFile
          bypass,      \* the clock of the card without its divider
          open         \* the window is there

vars == <<state, type, disk, chunk, helper, buffer, moved, failed, file, bypass, open>>

NONE == 0  DONE == 1  SELECT_CHUNK == 2  ERROR == 3  DEBUG == 4  PREPARING == 5  WORKING == 6
Disks == {"0", "4"}
NoFile == -1

Init ==
  /\ state = NONE /\ type = "write" /\ disk = "0" /\ chunk = 0
  /\ helper = "idle" /\ buffer = 0 /\ moved = 0 /\ failed = FALSE
  /\ file \in [Disks -> {NoFile, 0, Size}] /\ bypass = FALSE
  /\ open = TRUE

-----------------------------------------------------------------------------
\* gui_onkey.  The window closes unless a test runs.
RightSoft ==
  /\ open /\ state < PREPARING
  /\ open' = FALSE
  /\ UNCHANGED <<state, type, disk, chunk, helper, buffer, moved, failed, file, bypass>>

\* 1 to 4: the test, its disk, the first chunk.
Choose(t, d) ==
  /\ open /\ state = NONE
  /\ type' = t /\ disk' = d /\ chunk' = Chunk
  /\ state' = SELECT_CHUNK
  /\ UNCHANGED <<helper, buffer, moved, failed, file, bypass, open>>

\* *: the clock of the card; #: the registers of the card are shown.
Clock ==
  /\ open /\ state = NONE
  /\ bypass' = ~bypass
  /\ UNCHANGED <<state, type, disk, chunk, helper, buffer, moved, failed, file, open>>

Debug ==
  /\ open /\ state = NONE
  /\ state' = DEBUG
  /\ UNCHANGED <<type, disk, chunk, helper, buffer, moved, failed, file, bypass, open>>

ChangeChunk ==
  /\ open /\ state = SELECT_CHUNK
  /\ \/ chunk' = IF chunk \div 2 = 0 THEN 1 ELSE chunk \div 2          \* down
     \/ chunk' = IF chunk * 2 >= Size THEN Size ELSE chunk * 2         \* up
  /\ UNCHANGED <<state, type, disk, helper, buffer, moved, failed, file, bypass, open>>

\* Mutant: the test is started, and its state left to the helper.
EnterLate ==
  /\ open /\ state = SELECT_CHUNK /\ helper = "idle"
  /\ helper' = "called"
  /\ UNCHANGED <<state, type, disk, chunk, buffer, moved, failed, file, bypass, open>>

Enter ==
  /\ open /\ state = SELECT_CHUNK
  /\ state' = PREPARING
  /\ helper' = "called"
  /\ UNCHANGED <<type, disk, chunk, buffer, moved, failed, file, bypass, open>>

-----------------------------------------------------------------------------
\* benchmark, on the helper thread: the buffer, the old file removed, the file
\* opened or not.  A malloc that fails (main.c:64 does not look) is left out.
Allocate ==
  /\ helper = "called"
  /\ buffer' = chunk /\ moved' = 0 /\ failed' = FALSE
  /\ file' = [file EXCEPT ![disk] = IF type = "write" THEN NoFile ELSE @]
  /\ helper' = "opening"
  /\ UNCHANGED <<state, type, disk, chunk, bypass, open>>

OpenFile ==
  /\ helper = "opening"
  /\ state' = WORKING
  /\ \/ /\ type = "write" \/ file[disk] # NoFile
        /\ helper' = "moving"
        /\ file' = [file EXCEPT ![disk] = IF type = "write" THEN 0 ELSE @]
        /\ UNCHANGED failed
     \/ /\ helper' = "ending" /\ failed' = TRUE
        /\ UNCHANGED file
  /\ UNCHANGED <<type, disk, chunk, buffer, moved, bypass, open>>

\* One _write or _read of a chunk: all of it, some, none at the end of the file or
\* of the disk, or an error.
Move ==
  /\ helper = "moving" /\ moved < Size
  /\ \/ \E n \in 1 .. chunk :
          /\ type = "read" => moved + n <= file[disk]
          /\ moved' = moved + n
          /\ file' = [file EXCEPT ![disk] = IF type = "write" THEN @ + n ELSE @]
          /\ UNCHANGED <<helper, failed>>
     \/ /\ helper' = "ending" /\ failed' = TRUE
        /\ UNCHANGED <<moved, file>>
  /\ UNCHANGED <<state, type, disk, chunk, buffer, bypass, open>>

MovedAll ==
  /\ helper = "moving" /\ moved >= Size
  /\ helper' = "ending"
  /\ UNCHANGED <<state, type, disk, chunk, buffer, moved, failed, file, bypass, open>>

\* The result; then the buffer is freed, and the job returns.
Result ==
  /\ helper = "ending"
  /\ state' = IF failed THEN ERROR ELSE DONE
  /\ helper' = "freeing"
  /\ UNCHANGED <<type, disk, chunk, buffer, moved, failed, file, bypass, open>>

Free ==
  /\ helper = "freeing"
  /\ buffer' = 0 /\ helper' = "idle"
  /\ UNCHANGED <<state, type, disk, chunk, moved, failed, file, bypass, open>>

Next ==
  \/ RightSoft \/ Clock \/ Debug \/ ChangeChunk \/ Enter
  \/ \E t \in {"write", "read"}, d \in Disks : Choose(t, d)
  \/ Allocate \/ OpenFile \/ Move \/ MovedAll \/ Result \/ Free

Spec == Init /\ [][Next]_vars

-----------------------------------------------------------------------------
\* While the helper moves data its buffer has the size of the chunk it passes to
\* _write and _read, and the program is not unloaded: no key changes the test or
\* closes the window between Enter and the result (benchmark and gui_onkey,
\* FlashBenchmark/main.c:50-137 and 269-370).  A result that is shown as done
\* stands for at least Size bytes.
MeasuresSafely ==
  /\ helper \in {"opening", "moving"} => buffer = chunk /\ open
  /\ state = DONE => moved >= Size /\ ~failed
=============================================================================
