-------------------------------- MODULE TopLoop --------------------------------
(***************************************************************************)
(* Assignment_2/mytop.c: the main loop of mytop.  A key read by getch is    *)
(* applied, the screen is redrawn when the key or the time asks for it, and *)
(* getch waits again, for at most the second of halfdelay(10).              *)
(*                                                                          *)
(* Only differences of time matter: elapsed is now - before and lag is the  *)
(* time since now was read.  The scan of /proc (module ProcScan) is here    *)
(* the number of processes it finds, or the failure that ends the program.  *)
(***************************************************************************)
EXTENDS Integers

CONSTANTS
    DValues, NValues,   \* the numbers given with -d and with -n
    NoOption,           \* neither is given
    ULong,              \* the number of values of an unsigned long
    Pids,               \* pids the user may type
    NoNumber,           \* typed text that is not a number
    Garbage,            \* what the uninitialised input may hold
    MaxProcs,           \* bound: processes a scan finds
    MaxCol,             \* bound: presses of the right arrow that are counted
    MaxElapsed          \* bound: seconds that are told apart

ASSUME OptionAssumption ==
    /\ DValues \subseteq Nat /\ NValues \subseteq 0..(ULong - 1) /\ ULong \in Nat \ {0}
    /\ NoOption \notin Nat
ASSUME BoundAssumption ==
    /\ MaxProcs \in Nat /\ MaxCol \in Nat
    /\ MaxElapsed \in Nat /\ MaxElapsed >= 3 /\ \A d \in DValues : d <= MaxElapsed
ASSUME KillAssumption == Garbage \cap (Pids \cup {NoNumber}) = {}

SortKeys == {"P", "M", "N", "T"}
ArrowKeys == {"LEFT", "RIGHT", "UP", "DOWN"}
RedrawKeys == SortKeys \cup ArrowKeys \cup {"ENTER", "SPACE", "R", "E", "k"}
\* "x" is any other key and "ERR" is getch's answer after a second without one.
Keys == RedrawKeys \cup {"q", "x", "ERR"}

VARIABLES
    phase, ch,
    row, col, sortMode, reverseMode, byteUnit,
    killMode, print,
    dOption, nOption,       \* the number given, or NoOption
    updateTime, updatePeriod,
    elapsed, lag,
    procCnt,
    shown,                  \* history: the settings the screen was drawn with
    refreshes,              \* history: refreshes since the first screen, with -n
    sent                    \* history: what the user typed at the prompt and the pid signalled

settings == <<row, col, sortMode, reverseMode, byteUnit>>
options == <<dOption, nOption>>
vars == <<phase, ch, settings, killMode, print, options, updateTime,
          updatePeriod, elapsed, lag, procCnt, shown, refreshes, sent>>

Phases == {"loop", "test", "prompt", "redraw", "getch", "done", "quit", "failed"}
Settings == (0..MaxProcs) \X (0..MaxCol) \X SortKeys \X BOOLEAN \X (1..6)

TypeOK ==
    /\ phase \in Phases
    /\ ch \in Keys
    /\ row \in 0..MaxProcs /\ col \in 0..MaxCol
    /\ sortMode \in SortKeys /\ reverseMode \in BOOLEAN /\ byteUnit \in 1..6
    /\ killMode \in BOOLEAN /\ print \in BOOLEAN
    /\ dOption \in DValues \cup {NoOption} /\ nOption \in NValues \cup {NoOption}
    /\ updateTime \in Nat /\ updatePeriod \in 0..(ULong - 1)
    /\ elapsed \in 0..MaxElapsed /\ lag \in 0..MaxElapsed
    /\ procCnt \in 0..MaxProcs
    /\ shown \in Settings
    /\ refreshes \in Nat
    /\ sent \in (Pids \cup {NoNumber}) \X (Pids \cup Garbage) \cup {<<>>}

\* The first screen is drawn before the loop; ch = 0 is no key.  -d and -n exclude
\* each other: argv[1] is searched for the first of the two letters.
Init ==
    /\ phase = "loop" /\ ch = "x"
    /\ row = 0 /\ col = 0 /\ sortMode = "P" /\ reverseMode = FALSE /\ byteUnit = 2
    /\ killMode = FALSE /\ print = FALSE
    /\ \/ dOption \in DValues /\ nOption = NoOption
       \/ dOption = NoOption /\ nOption \in NValues \cup {NoOption}
    /\ updateTime = IF dOption = NoOption THEN 0 ELSE dOption
    /\ updatePeriod = IF nOption = NoOption THEN 0 ELSE nOption
    /\ elapsed = 0 /\ lag = 0
    /\ procCnt \in 0..MaxProcs
    /\ shown = settings
    /\ refreshes = 0
    /\ sent = <<>>

Capped(n, bound) == IF n > bound THEN bound ELSE n
--------------------------------------------------------------------------------
\* Mutant: R does not ask for a new screen.
PrintsButReverse(key) == key \in RedrawKeys \ {"R"}

\* The cases of switch (ch) that set print.
Prints(key) == key \in RedrawKeys

\* byteUnit++, from EIB back to KIB.
NextUnit(unit) == IF unit + 1 > 6 THEN 1 ELSE unit + 1

\* now = time(NULL) and switch (ch).
Switch ==
    /\ phase = "loop"
    /\ elapsed' = Capped(elapsed + lag, MaxElapsed) /\ lag' = 0
    /\ col' = CASE ch = "LEFT" -> IF col = 0 THEN 0 ELSE col - 1
                [] ch = "RIGHT" -> Capped(col + 1, MaxCol)
                [] OTHER -> col
    /\ row' = CASE ch = "UP" -> IF row = 0 THEN 0 ELSE row - 1
                [] ch = "DOWN" -> Capped(row + 1, procCnt)
                [] OTHER -> row
    /\ sortMode' = IF ch \in SortKeys THEN ch ELSE sortMode
    /\ reverseMode' = IF ch = "R" THEN ~reverseMode ELSE reverseMode
    /\ byteUnit' = IF ch = "E" THEN NextUnit(byteUnit) ELSE byteUnit
    /\ killMode' = IF ch = "k" THEN TRUE ELSE killMode
    /\ print' = IF Prints(ch) THEN TRUE ELSE print
    /\ phase' = "test"
    /\ UNCHANGED <<ch, options, updateTime, updatePeriod, procCnt, shown, refreshes, sent>>

\* Mutant: there is no default.
WaitNoDefault == updateTime

\* updateTime at the test: without -d it is set to 3 each time.
Wait == IF dOption = NoOption THEN 3 ELSE updateTime

\* The screen is due: updateTime is zeroed by Enter and Space, for good with -d.
Refresh ==
    /\ phase = "test"
    /\ print \/ elapsed >= Wait
    /\ updateTime' = IF ch \in {"ENTER", "SPACE"} THEN 0 ELSE Wait
    /\ phase' = IF killMode THEN "prompt" ELSE "redraw"
    /\ UNCHANGED <<ch, settings, killMode, print, options, updatePeriod, elapsed,
                   lag, procCnt, shown, refreshes, sent>>

\* Mutant: before = now outside the if.
NoRefreshRestarts ==
    /\ phase = "test"
    /\ ~print /\ elapsed < Wait
    /\ updateTime' = Wait
    /\ phase' = "getch"
    /\ elapsed' = 0
    /\ UNCHANGED <<ch, settings, killMode, print, options, updatePeriod,
                   lag, procCnt, shown, refreshes, sent>>

NoRefresh ==
    /\ phase = "test"
    /\ ~print /\ elapsed < Wait
    /\ updateTime' = Wait
    /\ phase' = "getch"
    /\ UNCHANGED <<ch, settings, killMode, print, options, updatePeriod, elapsed,
                   lag, procCnt, shown, refreshes, sent>>

\* Mutant: killMode is not reset.
KillProcessKeepsMode ==
    /\ phase = "prompt"
    /\ \E typed \in Pids \cup {NoNumber} :
       \E input \in IF typed = NoNumber THEN Garbage ELSE {typed} :
          sent' = <<typed, input>>
    /\ phase' = "redraw"
    /\ UNCHANGED <<ch, settings, killMode, print, options, updateTime, updatePeriod,
                   elapsed, lag, procCnt, shown, refreshes>>

\* mvscanw leaves input alone when the text is not a number; kill comes anyway.
KillProcess ==
    /\ phase = "prompt"
    /\ \E typed \in Pids \cup {NoNumber} :
       \E input \in IF typed = NoNumber THEN Garbage ELSE {typed} :
          sent' = <<typed, input>>
    /\ killMode' = FALSE
    /\ phase' = "redraw"
    /\ UNCHANGED <<ch, settings, print, options, updateTime, updatePeriod,
                   elapsed, lag, procCnt, shown, refreshes>>

\* Mutant: the number of refreshes is tested before it is counted down.
AfterPrintLate ==
    IF nOption = NoOption THEN phase' = "getch" /\ UNCHANGED <<updatePeriod, refreshes>>
    ELSE /\ updatePeriod' = (updatePeriod - 1 + ULong) % ULong
         /\ refreshes' = refreshes + 1
         /\ phase' = IF updatePeriod = 0 THEN "done" ELSE "getch"

\* With -n the refresh is counted, and the last one ends the loop.
AfterPrint ==
    IF nOption = NoOption THEN phase' = "getch" /\ UNCHANGED <<updatePeriod, refreshes>>
    ELSE /\ updatePeriod' = (updatePeriod - 1 + ULong) % ULong
         /\ refreshes' = refreshes + 1
         /\ phase' = IF updatePeriod' = 0 THEN "done" ELSE "getch"

\* The screen is drawn with the settings as they are.
PrintTOP == shown' = settings

\* EraseProcessList, SearchProcess, SortProc, PrintTOP; before = now.
Redraw ==
    /\ phase = "redraw"
    /\ procCnt' \in 0..MaxProcs
    /\ PrintTOP
    /\ elapsed' = 0
    /\ print' = FALSE
    /\ AfterPrint
    /\ sent' = <<>>
    /\ UNCHANGED <<ch, settings, killMode, options, updateTime, lag>>

\* exit(1) of SearchProcess or PrintTOP.
RedrawFails ==
    /\ phase = "redraw"
    /\ phase' = "failed"
    /\ UNCHANGED <<ch, settings, killMode, print, options, updateTime, updatePeriod,
                   elapsed, lag, procCnt, shown, refreshes, sent>>

\* getch: a key, or ERR after a second.
Getch(key) ==
    /\ phase = "getch"
    /\ ch' = key
    /\ phase' = IF key = "q" THEN "quit" ELSE "loop"
    /\ UNCHANGED <<settings, killMode, print, options, updateTime, updatePeriod,
                   elapsed, lag, procCnt, shown, refreshes, sent>>

\* A second passes.
Tick ==
    /\ lag < MaxElapsed
    /\ lag' = lag + 1
    /\ UNCHANGED <<phase, ch, settings, killMode, print, options, updateTime,
                   updatePeriod, elapsed, procCnt, shown, refreshes, sent>>
--------------------------------------------------------------------------------
Step == Switch \/ Refresh \/ NoRefresh \/ KillProcess \/ Redraw \/ RedrawFails
        \/ \E key \in Keys : Getch(key)

Next == Step \/ Tick

Spec == Init /\ [][Next]_vars

\* mytop is scheduled, getch returns after a second, the clock does not stop.
FairSpec == Spec /\ WF_vars(Step /\ phase # "prompt") /\ WF_vars(Tick)
--------------------------------------------------------------------------------
(***************************************************************************)
(* Properties                                                               *)
(***************************************************************************)
\* README.md: keys act at once.  When mytop waits for a key, the screen was drawn
\* with the settings all earlier keys have made, and nothing is left to be asked.
ScreenCurrent == phase = "getch" => shown = settings /\ ~print /\ ~killMode

\* README.md:6: mytop -n num refreshes the table num times and ends.
RefreshedAsAsked ==
    nOption # NoOption =>
        /\ refreshes <= nOption
        /\ phase = "done" => refreshes = nOption

\* README.md:5: without -d a refresh no key asked for comes three seconds after the
\* last one: Enter and Space zero updateTime, but line 364 sets it again before the
\* next test.  (With -d nothing sets it again.)
DefaultOnTime ==
    [][phase = "test" /\ phase' \in {"redraw", "prompt"} /\ ch \notin RedrawKeys
         /\ dOption = NoOption => elapsed >= 3]_vars

\* README.md:14: SIGTERM is sent in answer to k and at no other time: killMode is not
\* left set for a refresh that comes later.
KillOnlyAsked == [][sent' \notin {sent, <<>>} => ch = "k"]_vars

\* mytop goes on refreshing until it ends or the user leaves the pid prompt open.
KeepsRefreshing ==
    \/ []<>(phase = "redraw")
    \/ <>(phase \in {"done", "quit", "failed"})
    \/ <>[](phase = "prompt")
================================================================================
