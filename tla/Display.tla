-------------------------------- MODULE Display --------------------------------
(***************************************************************************)
(* The progress display (s3/progress.rs): workers, a ticker and the main   *)
(* thread, the two mutexes `screen` and `active`, and the terminal on      *)
(* which frames and lines are written by moving a cursor.                  *)
(*                                                                         *)
(* A row of the terminal is blank, a line, the summary with the number of  *)
(* files done, a file under way, or the row that stands for the rest.      *)
(* Bytes, rates and widths are left out: a row never wraps, as it is cut.  *)
(***************************************************************************)
EXTENDS Naturals, Sequences, SequencesExt

CONSTANTS
  Jobs,               (* the workers' jobs, parts of files                 *)
  FileOf,             (* the file each is a part of                        *)
  MaxRows,            (* MAX_ROWS: files listed above the summary          *)
  MaxTicks            (* bound: how often the ticker draws                 *)

Main == "main"
Ticker == "ticker"
Threads == Jobs \cup {Main, Ticker}
Listed == {FileOf[j] : j \in Jobs}

Free == "free"

VARIABLES
  displayAt,          (* where each thread is                              *)
  partsLeft,          (* the parts of each file that have not ended        *)
  active, holder,     (* `active`: the files listed, and who holds it      *)
  filesDone,          (* the atomic of that name                           *)
  screen,             (* who holds `screen`                                *)
  frameRows,          (* the rows of the last frame, kept under `screen`   *)
  term, cursorAt,     (* the terminal                                      *)
  summary,            (* the number a thread that draws has read           *)
  enabled, running, speaks,
  linesUp, frame,     (* history: the lines so far, and the last frame     *)
  ticks               (* bound: frames of the ticker so far                *)

displayVars == <<displayAt, partsLeft, active, holder, filesDone, screen, frameRows, term,
                 cursorAt, summary, enabled, running, speaks, linesUp, frame, ticks>>

shared == <<partsLeft, active, holder, filesDone>>
onScreen == <<frameRows, term, cursorAt, linesUp, frame>>
flags == <<enabled, running, speaks>>

Blank == <<"blank", 0>>
Text(f) == <<"line", f>>

DisplayInit ==
  /\ enabled \in BOOLEAN /\ running = enabled /\ speaks \in BOOLEAN
  /\ displayAt = [t \in Threads |->
       CASE t = Main -> "wait" [] t = Ticker -> IF enabled THEN "tick" ELSE "end"
         [] OTHER -> "begin"]
  /\ partsLeft = [f \in Listed |-> {j \in Jobs : FileOf[j] = f}]
  /\ active = <<>> /\ holder = Free /\ filesDone = 0
  /\ screen = Free /\ frameRows = 0 /\ cursorAt = 1
  /\ term = [r \in 1 .. Len(SetToSeq(Listed)) + MaxRows + 2 |-> Blank]
  /\ summary = [t \in Threads |-> 0]
  /\ linesUp = <<>> /\ frame = <<>> /\ ticks = 0

-----------------------------------------------------------------------------
(* What the escape sequences do to the terminal. *)
Top == cursorAt - (IF frameRows > 1 THEN frameRows - 1 ELSE 0)

(* A mutant: the rows that a shorter frame leaves are not blanked. *)
WriteFrameOnly(lines) ==
  /\ term' = [r \in DOMAIN term |->
       IF r \in Top .. Top + Len(lines) - 1 THEN lines[r - Top + 1] ELSE term[r]]
  /\ cursorAt' = Top + Len(lines) - 1
  /\ frameRows' = Len(lines) /\ frame' = lines

(* frame_bytes *)
WriteFrame(lines) ==
  /\ term' = [r \in DOMAIN term |->
       IF r \in Top .. Top + Len(lines) - 1 THEN lines[r - Top + 1]
       ELSE IF r \in Top .. Top + frameRows - 1 THEN Blank ELSE term[r]]
  /\ cursorAt' = Top + Len(lines) - 1
  /\ frameRows' = Len(lines) /\ frame' = lines

Erased == [r \in DOMAIN term |-> IF r \in Top .. Top + frameRows - 1 THEN Blank ELSE term[r]]

EraseFrame ==
  /\ term' = Erased /\ cursorAt' = Top
  /\ frameRows' = 0 /\ frame' = <<>>
  /\ UNCHANGED linesUp

(* erase_frame and println: a row that is not blank would show through. *)
PrintLine(f) ==
  /\ term' = [Erased EXCEPT ![Top] = IF @ = Blank THEN Text(f) ELSE <<"torn", f>>]
  /\ cursorAt' = Top + 1
  /\ frameRows' = 0 /\ frame' = <<>>
  /\ linesUp' = Append(linesUp, f)

(* frame_lines *)
FrameLines(done) ==
  [k \in 1 .. (IF Len(active) < MaxRows THEN Len(active) ELSE MaxRows) |->
     <<"file", active[k]>>]
  \o (IF Len(active) > MaxRows THEN <<<<"more", Len(active) - MaxRows>>>> ELSE <<>>)
  \o <<<<"summary", done>>>>

-----------------------------------------------------------------------------
Goes(t, place) == displayAt' = [displayAt EXCEPT ![t] = place]
At(t, place) == displayAt[t] = place
Mine(j) == FileOf[j]

(* begin_file: the parts of a file join one row. *)
BeginFile(j) ==
  /\ At(j, "begin") /\ holder = Free
  /\ active' = IF Contains(active, Mine(j)) THEN active ELSE Append(active, Mine(j))
  /\ Goes(j, "move")
  /\ UNCHANGED <<partsLeft, holder, filesDone, screen, onScreen, flags, summary, ticks>>

(* The part has ended, and with the last one the file. *)
EndPart(j) ==
  /\ At(j, "move")
  /\ partsLeft' = [partsLeft EXCEPT ![Mine(j)] = @ \ {j}]
  /\ Goes(j, IF partsLeft'[Mine(j)] # {} THEN "done" ELSE IF speaks THEN "print" ELSE "finish")
  /\ UNCHANGED <<active, holder, filesDone, screen, onScreen, flags, summary, ticks>>

(* print_above: erase and print, and put the frame back. *)
PrintAbove(j) ==
  /\ At(j, "print") /\ screen = Free
  /\ screen' = j /\ PrintLine(Mine(j))
  /\ Goes(j, "printed")
  /\ UNCHANGED <<shared, flags, summary, ticks>>
PutBack(j) ==
  /\ At(j, "printed")
  /\ IF enabled THEN Goes(j, "totals") /\ UNCHANGED screen
     ELSE Goes(j, "finish") /\ screen' = Free
  /\ UNCHANGED <<shared, onScreen, flags, summary, ticks>>

(* A mutant: `active` is held until the frame has been drawn. *)
CountFileHolding(j) ==
  /\ At(j, "retire")
  /\ filesDone' = filesDone + 1
  /\ Goes(j, "draw")
  /\ UNCHANGED <<partsLeft, active, holder, screen, onScreen, flags, summary, ticks>>

(* finish_file: the row goes under `active`, which is given back before    *)
(* the frame is drawn.                                                     *)
FinishFile(j) ==
  /\ At(j, "finish") /\ holder = Free
  /\ holder' = j /\ active' = SelectSeq(active, LAMBDA f : f # Mine(j))
  /\ Goes(j, "retire")
  /\ UNCHANGED <<partsLeft, filesDone, screen, onScreen, flags, summary, ticks>>
CountFile(j) ==
  /\ At(j, "retire")
  /\ holder' = Free /\ filesDone' = filesDone + 1
  /\ Goes(j, "draw")
  /\ UNCHANGED <<partsLeft, active, screen, onScreen, flags, summary, ticks>>

-----------------------------------------------------------------------------
Back(t) == IF t = Ticker THEN "tick" ELSE IF Contains(active, Mine(t)) THEN "finish" ELSE "done"

(* draw *)
Draw(t) ==
  /\ At(t, "draw")
  /\ Goes(t, IF enabled THEN "lock" ELSE Back(t))
  /\ UNCHANGED <<shared, screen, onScreen, flags, summary, ticks>>
LockScreen(t) ==
  /\ At(t, "lock") /\ screen = Free
  /\ screen' = t /\ Goes(t, "recheck")
  /\ UNCHANGED <<shared, onScreen, flags, summary, ticks>>

(* A mutant: what was seen before the lock is taken for true. *)
RecheckNothing(t) ==
  /\ At(t, "recheck")
  /\ Goes(t, "totals")
  /\ UNCHANGED <<shared, screen, onScreen, flags, summary, ticks>>

(* `clear` may have run while the lock was waited for. *)
Recheck(t) ==
  /\ At(t, "recheck")
  /\ IF enabled THEN Goes(t, "totals") /\ UNCHANGED screen
     ELSE Goes(t, Back(t)) /\ screen' = Free
  /\ UNCHANGED <<shared, onScreen, flags, summary, ticks>>

ReadTotals(t) ==
  /\ At(t, "totals")
  /\ summary' = [summary EXCEPT ![t] = filesDone]
  /\ Goes(t, "rows")
  /\ UNCHANGED <<shared, screen, onScreen, flags, ticks>>
ReadRows(t) ==
  /\ At(t, "rows") /\ holder \in {Free, t}
  /\ WriteFrame(FrameLines(summary[t]))
  /\ screen' = Free /\ holder' = Free
  /\ Goes(t, Back(t))
  /\ UNCHANGED <<partsLeft, active, filesDone, linesUp, flags, summary, ticks>>

-----------------------------------------------------------------------------
(* The ticker sleeps, looks whether it is to run on, and draws. *)
Tick ==
  /\ At(Ticker, "tick")
  /\ IF running
     THEN ticks < MaxTicks /\ ticks' = ticks + 1 /\ Goes(Ticker, "draw")
     ELSE Goes(Ticker, "end") /\ UNCHANGED ticks
  /\ UNCHANGED <<shared, screen, onScreen, flags, summary>>

(* clear, after the pool; then the ticker is joined and all is erased      *)
(* once more.                                                              *)
StopTicker ==
  /\ At(Main, "wait") /\ \A j \in Jobs : At(j, "done")
  /\ running' = FALSE /\ Goes(Main, "disable")
  /\ UNCHANGED <<shared, screen, onScreen, enabled, speaks, summary, ticks>>
Disable ==
  /\ At(Main, "disable")
  /\ enabled' = FALSE /\ Goes(Main, "clear")
  /\ UNCHANGED <<shared, screen, onScreen, running, speaks, summary, ticks>>
Clear ==
  /\ At(Main, "clear") /\ screen = Free
  /\ EraseFrame /\ Goes(Main, "join")
  /\ UNCHANGED <<shared, screen, flags, summary, ticks>>
Drop ==
  /\ At(Main, "join") /\ At(Ticker, "end") /\ screen = Free
  /\ EraseFrame /\ Goes(Main, "over")
  /\ UNCHANGED <<shared, screen, flags, summary, ticks>>

JobStep(j) ==
  \/ BeginFile(j) \/ EndPart(j) \/ PrintAbove(j) \/ PutBack(j)
  \/ FinishFile(j) \/ CountFile(j)
DrawStep(t) ==
  Draw(t) \/ LockScreen(t) \/ Recheck(t) \/ ReadTotals(t) \/ ReadRows(t)
MainStep == StopTicker \/ Disable \/ Clear \/ Drop
TickerStep == Tick \/ DrawStep(Ticker)

DisplayNext ==
  (\E j \in Jobs : JobStep(j) \/ DrawStep(j)) \/ TickerStep \/ MainStep

Spec ==
  /\ DisplayInit /\ [][DisplayNext]_displayVars
  /\ \A j \in Jobs : WF_displayVars(JobStep(j) \/ DrawStep(j))
  /\ WF_displayVars(TickerStep) /\ WF_displayVars(MainStep)

-----------------------------------------------------------------------------
(* While nobody writes, the terminal is the lines so far, below them the   *)
(* last frame, and nothing else: no line lost under a frame, none torn and *)
(* no row of an earlier frame left.                                        *)
ScreenIsWhole ==
  screen = Free =>
    LET n == Len(linesUp)
    IN  /\ \A r \in DOMAIN term :
             term[r] = CASE r <= n -> Text(linesUp[r])
                         [] r > n /\ r <= n + Len(frame) -> frame[r - n]
                         [] OTHER -> Blank
        /\ frameRows = Len(frame)
        /\ cursorAt = n + (IF frame = <<>> THEN 1 ELSE Len(frame))

(* A file that has ended is listed no longer ("each removed the moment     *)
(* that file finishes") and is counted, in whatever frame is shown then.   *)
Ended == {f \in Listed : partsLeft[f] = {} /\
            \A j \in Jobs : FileOf[j] = f => At(j, "done")}
EndedIsGone ==
  frame # <<>> =>
    /\ \A k \in DOMAIN frame : frame[k][1] = "file" => frame[k][2] \notin Ended
    /\ Last(frame)[2] >= Len(SetToSeq(Ended))

(* After `clear` there is no frame, whatever the ticker was about to do    *)
(* ("drawing after that would put the bar back after the command believed  *)
(* it gone"), and what was printed is there, once for each file.           *)
ClearedForGood ==
  At(Main, "join") \/ At(Main, "over") =>
    frame = <<>> /\ (speaks => ToSet(linesUp) = Listed /\ IsInjective(linesUp))

DisplayKept == ScreenIsWhole /\ EndedIsGone /\ ClearedForGood

DisplayOver == displayAt[Main] = "over" /\ displayAt[Ticker] = "end"
===============================================================================
