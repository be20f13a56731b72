------------------------------- MODULE TopProofs -------------------------------
(***************************************************************************)
(* The main loop of mytop for every option value and every sequence of      *)
(* keys: no key is lost on its way to the screen, and -n counts right.      *)
(***************************************************************************)
EXTENDS TopLoop, TLAPS

\* What the screen has to do with the settings at each point of the loop: a key that
\* changes them sets print, and print leads to a redraw before the next key.
ScreenInv ==
    /\ phase \in {"loop", "getch"} => shown = settings /\ ~print /\ ~killMode
    /\ phase = "test" /\ ~print => shown = settings /\ ~killMode
    /\ phase = "redraw" => ~killMode

\* The refreshes made and those left add up to the number given with -n.
CountInv ==
    nOption \in NValues =>
        /\ refreshes + updatePeriod = nOption
        /\ IF phase = "done" THEN updatePeriod = 0 ELSE updatePeriod > 0

LEMMA CapType ==
    ASSUME NEW n \in Nat, NEW bound \in Nat PROVE Capped(n, bound) \in 0..bound
  BY DEF Capped

\* The cases of the switch keep the settings in their ranges.
LEMMA SwitchSettings ==
    ASSUME TypeOK, Switch
    PROVE  /\ row' \in 0..MaxProcs /\ col' \in 0..MaxCol /\ byteUnit' \in 1..6
           /\ sortMode' \in SortKeys /\ reverseMode' \in BOOLEAN
           /\ elapsed' \in 0..MaxElapsed /\ lag' \in 0..MaxElapsed
<1> USE BoundAssumption
<1>1. col' \in 0..MaxCol
  <2>1. col \in 0..MaxCol /\ MaxCol \in Nat
    BY DEF TypeOK
  <2>2. \/ col' = 0
        \/ col # 0 /\ col' = col - 1
        \/ col' = Capped(col + 1, MaxCol)
        \/ col' = col
    BY DEF Switch
  <2> QED
    BY <2>1, <2>2 DEF Capped
<1>2. row' \in 0..MaxProcs
  BY SMTT(30) DEF TypeOK, Switch, Capped
<1>3. byteUnit' \in 1..6
  BY SMTT(30) DEF TypeOK, Switch, NextUnit
<1>4. elapsed' \in 0..MaxElapsed /\ lag' \in 0..MaxElapsed
  BY DEF TypeOK, Switch, Capped
<1>5. sortMode' \in SortKeys
  BY DEF TypeOK, Switch
<1>6. reverseMode' \in BOOLEAN
  BY DEF TypeOK, Switch
<1> QED
  BY <1>1, <1>2, <1>3, <1>4, <1>5, <1>6

LEMMA SettingsType ==
    TypeOK => settings \in Settings
  BY DEF TypeOK, settings, Settings

LEMMA WaitType == TypeOK => Wait \in Nat
  BY OptionAssumption DEF TypeOK, Wait
--------------------------------------------------------------------------------
LEMMA TopInitType == Init => TypeOK
<1> SUFFICES ASSUME Init PROVE TypeOK
  OBVIOUS
<1> USE BoundAssumption, OptionAssumption
<1>1. /\ phase \in Phases /\ ch \in Keys /\ sortMode \in SortKeys
      /\ killMode \in BOOLEAN /\ print \in BOOLEAN /\ reverseMode \in BOOLEAN
  BY DEF Init, Phases, Keys, SortKeys, RedrawKeys
<1>2. /\ row \in 0..MaxProcs /\ col \in 0..MaxCol /\ byteUnit \in 1..6
      /\ elapsed \in 0..MaxElapsed /\ lag \in 0..MaxElapsed
      /\ procCnt \in 0..MaxProcs /\ refreshes \in Nat
  BY DEF Init
<1>3. shown \in Settings
  BY <1>1, <1>2 DEF Init, settings, Settings
<1>4. dOption \in DValues \cup {NoOption} /\ nOption \in NValues \cup {NoOption}
  BY DEF Init
<1>5. updateTime \in Nat
  BY <1>4 DEF Init
<1>6. updatePeriod \in 0..(ULong - 1)
  <2>1. CASE nOption = NoOption
    <3>1. updatePeriod = 0 /\ ULong \in Nat \ {0}
      BY <2>1 DEF Init
    <3> QED
      BY <3>1
  <2>2. CASE nOption \in NValues
    <3>1. nOption # NoOption
      BY <2>2
    <3> QED
      BY <2>2, <3>1 DEF Init
  <2> QED
    BY <1>4, <2>1, <2>2
<1>7. sent = <<>>
  BY DEF Init
<1> QED
  BY <1>1, <1>2, <1>3, <1>4, <1>5, <1>6, <1>7 DEF TypeOK

LEMMA AfterPrintType ==
    ASSUME TypeOK, AfterPrint
    PROVE  /\ updatePeriod' \in 0..(ULong - 1) /\ refreshes' \in Nat
           /\ phase' \in {"getch", "done"}
  BY OptionAssumption DEF TypeOK, AfterPrint

LEMMA TopNextType == TypeOK /\ [Next]_vars => TypeOK'
<1> SUFFICES ASSUME TypeOK, [Next]_vars PROVE TypeOK'
  OBVIOUS
<1>1. CASE Switch
  <2>1. killMode' \in BOOLEAN /\ print' \in BOOLEAN
    BY <1>1 DEF TypeOK, Switch
  <2>2. phase' \in Phases
    BY <1>1 DEF Switch, Phases
  <2> QED
    BY <1>1, <2>1, <2>2, SwitchSettings DEF TypeOK, Switch, options
<1>2. CASE Refresh
  <2>1. updateTime' \in Nat /\ phase' \in Phases
    BY <1>2, WaitType DEF Refresh, Phases
  <2> QED
    BY <1>2, <2>1 DEF TypeOK, Refresh, settings, options
<1>3. CASE NoRefresh
  <2>1. updateTime' \in Nat /\ phase' \in Phases
    BY <1>3, WaitType DEF NoRefresh, Phases
  <2> QED
    BY <1>3, <2>1 DEF TypeOK, NoRefresh, settings, options
<1>4. CASE KillProcess
  <2>1. sent' \in (Pids \cup {NoNumber}) \X (Pids \cup Garbage)
    <3>1. PICK typed \in Pids \cup {NoNumber} :
            \E input \in IF typed = NoNumber THEN Garbage ELSE {typed} :
               sent' = <<typed, input>>
      BY <1>4 DEF KillProcess
    <3>2. PICK input \in IF typed = NoNumber THEN Garbage ELSE {typed} :
            sent' = <<typed, input>>
      BY <3>1
    <3>3. input \in Pids \cup Garbage
      BY <3>2
    <3> QED
      BY <3>2, <3>3
  <2>2. phase' \in Phases
    BY <1>4 DEF KillProcess, Phases
  <2> QED
    BY <1>4, <2>1, <2>2 DEF TypeOK, KillProcess, settings, options
<1>5. CASE Redraw
  <2>1. /\ updatePeriod' \in 0..(ULong - 1) /\ refreshes' \in Nat
        /\ phase' \in {"getch", "done"}
    BY <1>5, AfterPrintType DEF Redraw
  <2>2. shown' \in Settings /\ elapsed' \in 0..MaxElapsed /\ procCnt' \in 0..MaxProcs
    BY <1>5, SettingsType, BoundAssumption DEF Redraw, PrintTOP
  <2>3. phase' \in Phases
    BY <2>1 DEF Phases
  <2> QED
    BY <1>5, <2>1, <2>2, <2>3 DEF TypeOK, Redraw, settings, options
<1>6. CASE RedrawFails
  BY <1>6 DEF TypeOK, RedrawFails, settings, options, Phases
<1>7. CASE \E key \in Keys : Getch(key)
  <2>1. PICK key \in Keys : Getch(key)
    BY <1>7
  <2>2. phase' \in Phases
    BY <2>1 DEF Getch, Phases
  <2> QED
    BY <2>1, <2>2 DEF TypeOK, Getch, settings, options
<1>8. CASE Tick
  <2>1. lag' \in 0..MaxElapsed
    BY <1>8, BoundAssumption DEF TypeOK, Tick
  <2> QED
    BY <1>8, <2>1 DEF TypeOK, Tick, settings, options
<1>9. CASE UNCHANGED vars
  BY <1>9 DEF TypeOK, vars, settings, options
<1> QED
  BY <1>1, <1>2, <1>3, <1>4, <1>5, <1>6, <1>7, <1>8, <1>9 DEF Next, Step

\* Every variable of the main loop keeps its range.
THEOREM TopTypeCorrect == Spec => []TypeOK
  BY TopInitType, TopNextType, PTL DEF Spec
--------------------------------------------------------------------------------
\* A key that does not ask for a new screen changes no setting.
LEMMA QuietKeys ==
    ASSUME TypeOK, Switch, ch \notin RedrawKeys
    PROVE  settings' = settings /\ killMode' = killMode /\ print' = print
<1>1. /\ ch \notin SortKeys /\ ch # "LEFT" /\ ch # "RIGHT" /\ ch # "UP" /\ ch # "DOWN"
      /\ ch # "R" /\ ch # "E" /\ ch # "k"
  BY DEF RedrawKeys, ArrowKeys
<1> QED
  BY <1>1 DEF Switch, settings, Prints

LEMMA ScreenInit == Init => ScreenInv
  BY DEF Init, ScreenInv

LEMMA ScreenNext == TypeOK /\ ScreenInv /\ [Next]_vars => ScreenInv'
<1> SUFFICES ASSUME TypeOK, ScreenInv, [Next]_vars PROVE ScreenInv'
  OBVIOUS
<1>1. CASE Switch
  <2>1. CASE ch \in RedrawKeys
    <3>1. print' = TRUE /\ phase' = "test"
      BY <1>1, <2>1 DEF Switch, Prints
    <3> QED
      BY <3>1 DEF ScreenInv
  <2>2. CASE ch \notin RedrawKeys
    <3>1. phase = "loop" /\ phase' = "test" /\ shown' = shown
      BY <1>1 DEF Switch
    <3> QED
      BY <1>1, <2>2, <3>1, QuietKeys DEF ScreenInv
  <2> QED
    BY <2>1, <2>2
<1>2. CASE Refresh
  BY <1>2 DEF Refresh, ScreenInv
<1>3. CASE NoRefresh
  BY <1>3 DEF NoRefresh, ScreenInv
<1>4. CASE KillProcess
  BY <1>4 DEF KillProcess, ScreenInv
<1>5. CASE Redraw
  <2>1. phase' \in {"getch", "done"}
    BY <1>5, AfterPrintType DEF Redraw
  <2>2. settings' = settings /\ shown' = settings /\ print' = FALSE /\ ~killMode'
    BY <1>5 DEF Redraw, PrintTOP, ScreenInv
  <2> QED
    BY <2>1, <2>2 DEF ScreenInv
<1>6. CASE RedrawFails
  BY <1>6 DEF RedrawFails, ScreenInv
<1>7. CASE \E key \in Keys : Getch(key)
  BY <1>7 DEF Getch, ScreenInv
<1>8. CASE Tick
  BY <1>8 DEF Tick, ScreenInv
<1>9. CASE UNCHANGED vars
  BY <1>9 DEF vars, ScreenInv
<1> QED
  BY <1>1, <1>2, <1>3, <1>4, <1>5, <1>6, <1>7, <1>8, <1>9 DEF Next, Step

\* Whatever keys are pressed: when mytop waits for the next one, all earlier ones are
\* on the screen.
THEOREM ScreenCurrentCorrect == Spec => []ScreenCurrent
<1>1. ScreenInv => ScreenCurrent
  BY DEF ScreenInv, ScreenCurrent
<1> QED
  BY <1>1, TopTypeCorrect, TopInitType, TopNextType, ScreenInit, ScreenNext, PTL DEF Spec
--------------------------------------------------------------------------------
LEMMA CountInit == ASSUME 0 \notin NValues PROVE Init => CountInv
<1> SUFFICES ASSUME Init, nOption \in NValues
             PROVE  refreshes + updatePeriod = nOption /\ updatePeriod > 0 /\ phase # "done"
  BY DEF CountInv
<1>1. nOption \in Nat /\ nOption # 0 /\ nOption # NoOption
  BY OptionAssumption
<1> QED
  BY <1>1 DEF Init

LEMMA CountNext == TypeOK /\ CountInv /\ [Next]_vars => CountInv'
<1> SUFFICES ASSUME TypeOK, CountInv, [Next]_vars PROVE CountInv'
  OBVIOUS
<1>1. CASE Redraw
  <2> SUFFICES ASSUME nOption \in NValues
               PROVE  /\ refreshes' + updatePeriod' = nOption
                      /\ IF phase' = "done" THEN updatePeriod' = 0 ELSE updatePeriod' > 0
    BY <1>1 DEF CountInv, Redraw, options
  <2>1. /\ refreshes + updatePeriod = nOption /\ updatePeriod > 0
        /\ updatePeriod \in 0..(ULong - 1) /\ refreshes \in Nat /\ ULong \in Nat
    BY <1>1, OptionAssumption DEF CountInv, TypeOK, Redraw
  <2>2. nOption # NoOption
    BY OptionAssumption
  <2>3. /\ updatePeriod' = (updatePeriod - 1 + ULong) % ULong
        /\ refreshes' = refreshes + 1
        /\ phase' = IF updatePeriod' = 0 THEN "done" ELSE "getch"
    BY <1>1, <2>2 DEF Redraw, AfterPrint
  <2>4. (updatePeriod - 1 + ULong) % ULong = updatePeriod - 1
    BY <2>1
  <2>5. updatePeriod' = updatePeriod - 1
    BY <2>3, <2>4
  <2>6. refreshes' + updatePeriod' = nOption
    BY <2>1, <2>3, <2>5
  <2>7. IF phase' = "done" THEN updatePeriod' = 0 ELSE updatePeriod' > 0
    BY <2>1, <2>3, <2>5
  <2> QED
    BY <2>6, <2>7
<1>2. CASE ~Redraw
  <2>1. /\ nOption' = nOption /\ refreshes' = refreshes /\ updatePeriod' = updatePeriod
        /\ phase' = "done" <=> phase = "done"
    BY <1>2 DEF Next, Step, Switch, Refresh, NoRefresh, KillProcess, RedrawFails, Getch,
                Tick, vars, options
  <2> QED
    BY <2>1 DEF CountInv
<1> QED
  BY <1>1, <1>2

\* With -n num, num not 0, the loop makes num refreshes, never more, and ends with
\* the last one unless the user or a failure ends it first.
THEOREM RefreshedAsAskedCorrect ==
    ASSUME 0 \notin NValues PROVE Spec => []RefreshedAsAsked
<1>1. TypeOK /\ CountInv => RefreshedAsAsked
  <2> SUFFICES ASSUME TypeOK, CountInv, nOption # NoOption
               PROVE  refreshes <= nOption /\ (phase = "done" => refreshes = nOption)
    BY DEF RefreshedAsAsked
  <2>1. /\ refreshes + updatePeriod = nOption /\ refreshes \in Nat
        /\ updatePeriod \in 0..(ULong - 1) /\ (phase = "done" => updatePeriod = 0)
    BY DEF TypeOK, CountInv
  <2> QED
    BY <2>1
<1>2. Init => CountInv
  BY CountInit
<1> QED
  BY <1>1, <1>2, TopInitType, TopNextType, CountNext, PTL DEF Spec
--------------------------------------------------------------------------------
\* What the code after the switch may rely on: print and killMode were set by the key
\* that was read last.
AskedInv ==
    /\ phase = "test" /\ print => ch \in RedrawKeys
    /\ phase = "test" /\ killMode => ch = "k"
    /\ phase = "prompt" => ch = "k"

LEMMA AskedInit == Init => AskedInv
  BY DEF Init, AskedInv

LEMMA AskedNext == TypeOK /\ ScreenInv /\ AskedInv /\ [Next]_vars => AskedInv'
<1> SUFFICES ASSUME TypeOK, ScreenInv, AskedInv, [Next]_vars PROVE AskedInv'
  OBVIOUS
<1>1. CASE Switch
  BY <1>1 DEF Switch, Prints, ScreenInv, AskedInv
<1>2. CASE Refresh
  BY <1>2 DEF Refresh, AskedInv
<1>3. CASE Redraw
  BY <1>3, AfterPrintType DEF Redraw, AskedInv
<1>4. CASE NoRefresh \/ KillProcess \/ RedrawFails \/ \E key \in Keys : Getch(key)
  BY <1>4 DEF NoRefresh, KillProcess, RedrawFails, Getch, AskedInv
<1>5. CASE Tick \/ UNCHANGED vars
  BY <1>5 DEF Tick, vars, AskedInv
<1> QED
  BY <1>1, <1>2, <1>3, <1>4, <1>5 DEF Next, Step

\* mytop.c:364-367: without -d a refresh that no key asked for comes three seconds or
\* more after the one before it, whatever keys were pressed in between.
THEOREM DefaultInterval == Spec => DefaultOnTime
<1>1. TypeOK /\ AskedInv /\ [Next]_vars =>
        [phase = "test" /\ phase' \in {"redraw", "prompt"} /\ ch \notin RedrawKeys
           /\ dOption = NoOption => elapsed >= 3]_vars
  <2> SUFFICES ASSUME TypeOK, AskedInv, [Next]_vars, phase = "test", dOption = NoOption,
                      phase' \in {"redraw", "prompt"}, ch \notin RedrawKeys
               PROVE  elapsed >= 3
    OBVIOUS
  <2>1. Refresh
    BY DEF Next, Step, Switch, NoRefresh, KillProcess, Redraw, RedrawFails, Getch, Tick, vars
  <2>2. ~print
    BY DEF AskedInv
  <2> QED
    BY <2>1, <2>2 DEF Refresh, Wait
<1> QED
  BY <1>1, TopInitType, TopNextType, ScreenInit, ScreenNext, AskedInit, AskedNext, PTL
  DEF Spec, DefaultOnTime

\* mytop.c:1489-1500: whatever keys are pressed, SIGTERM is sent only when the last key
\* was k.
THEOREM KillOnlyAskedCorrect == Spec => KillOnlyAsked
<1>1. TypeOK /\ AskedInv /\ [Next]_vars => [sent' \notin {sent, <<>>} => ch = "k"]_vars
  <2> SUFFICES ASSUME TypeOK, AskedInv, [Next]_vars, sent' \notin {sent, <<>>}
               PROVE  ch = "k"
    OBVIOUS
  <2>1. KillProcess
    BY DEF Next, Step, Switch, Refresh, NoRefresh, Redraw, RedrawFails, Getch, Tick, vars
  <2> QED
    BY <2>1 DEF KillProcess, AskedInv
<1> QED
  BY <1>1, TopInitType, TopNextType, ScreenInit, ScreenNext, AskedInit, AskedNext, PTL
  DEF Spec, KillOnlyAsked
================================================================================
