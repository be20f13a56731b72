----------------------------------- MODULE Ps -----------------------------------
(***************************************************************************)
(* Assignment_2/myps.c on the system of ProcScan.                            *)
(*                                                                           *)
(* myps walks /proc once, as mytop does on every refresh, but keeps only the *)
(* processes its options select.  For that it looks at a process up to four  *)
(* times: stat of its directory for the owner, GetTTY up to twice for the    *)
(* terminal, and AddProcessList with a last GetTTY.  The process may end, be *)
(* followed by another one with its pid, or change its standard input        *)
(* between any two of them.                                                  *)
(*                                                                           *)
(* A behaviour runs either mytop (ProcScan) or myps.  The user is not root.  *)
(***************************************************************************)
EXTENDS ProcScan, SequencesExt

CONSTANTS
    Self,       \* the pid of myps
    Profiles,   \* who a process may belong to and what it may be connected to
    Commands    \* what myps may be called with: sequences of words

ASSUME SelfAssumption == Self \in Pids
ASSUME ProfileAssumption == \A f \in Profiles : DOMAIN f = {"uid", "stdin", "terminal"}

VARIABLES
    program,            \* "mytop" or "myps"
    profile,            \* [uid, stdin, terminal] of each process
    options,            \* what main made of the command line
    myTTY,
    at,                 \* where SearchProcess is with the entry
    tty,                \* what the last GetTTY returned
    psList,             \* procList and procCnt of myps
    shown,              \* the rows PrintPS has printed
    rewired             \* history: pids whose standard input changed

psvars == <<program, profile, options, myTTY, at, tty, psList, shown, rewired>>
allvars == <<vars, psvars>>

\* Word(letters) is an argument such as -ef, Number(n) one made of digits.
Word(letters) == [letters |-> letters, pid |-> 0]
Number(n) == [letters |-> {}, pid |-> n]
--------------------------------------------------------------------------------
(***************************************************************************)
(* main                                                                     *)
(***************************************************************************)
\* e and p switch on a and x.
Implied(letters) == letters \cup (IF {"e", "p"} \cap letters # {} THEN {"a", "x"} ELSE {})

\* One argument.  After p every argument must be a number (ErrorFunc ends myps).
Parsed(so, word) ==
    IF so.error \/ ("p" \in so.on /\ word.pid = 0)
    THEN [so EXCEPT !.error = TRUE]
    ELSE [so EXCEPT !.on = @ \cup Implied(word.letters),
                    !.pidList = IF "p" \in so.on THEN @ \cup {word.pid} ELSE @]

Options(command) == FoldLeft(Parsed, [on |-> {}, pidList |-> {}, error |-> FALSE], command)

On(letter) == letter \in options.on
Format == On("a") \/ On("u") \/ On("x")

\* main keeps the digits behind "pts/"; of a longer name the fifth character goes
\* with all that follows.
Cut(name) == IF name = "console" THEN "cons" ELSE name

Myps == program = "myps"
Nowhere == <<"", "">>
--------------------------------------------------------------------------------
(***************************************************************************)
(* GetTTY                                                                   *)
(***************************************************************************)
\* The name in the link fd/0: /dev/null counts as no terminal, a pipe has no name.
Linked(stdin) ==
    CASE stdin = "null" -> "?"
      [] stdin = "pipe" -> ""
      [] OTHER -> stdin

\* The device of tty_nr among the entries of /dev, which has no pts/0.
Found(terminal) == IF terminal \in {"tty1", "console"} THEN terminal ELSE "?"

\* fd of another user's process cannot be read.
HasLink(p) == p \in alive /\ profile[p].uid = "me" /\ profile[p].stdin # "closed"

\* What GetTTY returns for a process that does not change meanwhile.
TTY(p) == IF HasLink(p) THEN Linked(profile[p].stdin) ELSE Found(profile[p].terminal)

\* access: which way the name is looked for.
Access ==
    /\ Myps /\ entry # 0 /\ at[2] = "access"
    /\ at' = [at EXCEPT ![2] = IF HasLink(entry) THEN "readlink" ELSE "tty_nr"]
    /\ UNCHANGED <<vars, program, profile, options, myTTY, tty, psList, shown, rewired>>

\* readlink: a process that has ended or closed its input since ends myps.
Readlink ==
    /\ Myps /\ entry # 0 /\ at[2] = "readlink"
    /\ IF HasLink(entry)
       THEN tty' = Linked(profile[entry].stdin) /\ at' = [at EXCEPT ![2] = "return"]
            /\ UNCHANGED phase
       ELSE phase' = "exit" /\ UNCHANGED <<tty, at>>
    /\ UNCHANGED <<system, position, buffer, entry, record, times, cpuTimeTable, procList, steady, seen, program, profile, options, myTTY, psList, shown, rewired>>

\* tty_nr is read from stat and looked for in /dev.  Without stat the name stays
\* empty; an entry of /dev that stat does not find ends myps.
SearchDev ==
    /\ Myps /\ entry # 0 /\ at[2] = "tty_nr"
    /\ \/ /\ tty' = IF entry \in alive THEN Found(profile[entry].terminal) ELSE ""
          /\ at' = [at EXCEPT ![2] = "return"]
          /\ UNCHANGED phase
       \/ /\ entry \in alive
          /\ phase' = "exit"
          /\ UNCHANGED <<tty, at>>
    /\ UNCHANGED <<system, position, buffer, entry, record, times, cpuTimeTable, procList, steady, seen, program, profile, options, myTTY, psList, shown, rewired>>
--------------------------------------------------------------------------------
\* myps finds its own terminal, reads its arguments and calls SearchProcess.
Main ==
    /\ Myps /\ at = <<"main", "">>
    /\ myTTY' = Cut(TTY(Self))
    /\ \E command \in Commands : options' = Options(command)
    /\ at' = Nowhere
    /\ phase' = IF options'.error THEN "exit" ELSE phase
    /\ uptime' = clock
    /\ steady' = alive /\ seen' = alive /\ rewired' = {}
    /\ UNCHANGED <<system, position, buffer, entry, record, now, before, cpuTimeTable,
                   procList, program, profile, tty, psList, shown>>
--------------------------------------------------------------------------------
(***************************************************************************)
(* SearchProcess                                                            *)
(***************************************************************************)
PsReaddir ==
    /\ Myps /\ at = Nowhere
    /\ Readdir
    /\ UNCHANGED psvars

\* The filters that need the terminal; none is left: AddProcessList.
Filters == (IF On("x") THEN {} ELSE {"x"})
           \cup (IF Format THEN {} ELSE {"mine"})
FirstFilter == IF "x" \in Filters THEN <<"x", "access">> ELSE <<"add", "stat">>

\* stat of the next entry gives the owner; without a other users' entries are passed
\* over.  A process that ended since readdir ends myps.
PsStat ==
    /\ Myps /\ at = Nowhere /\ Scanning
    /\ \E p \in buffer :
         /\ \A q \in buffer : p <= q
         /\ position' = p
         /\ buffer' = buffer \ {p}
         /\ \/ /\ p \notin alive
               /\ phase' = "exit" /\ UNCHANGED <<entry, at>>
            \/ /\ p \in alive
               /\ UNCHANGED phase
               /\ IF On("a") \/ profile[p].uid = "me"
                  THEN entry' = p /\ at' = FirstFilter
                  ELSE UNCHANGED <<entry, at>>
    /\ UNCHANGED <<system, record, times, cpuTimeTable, procList, steady, seen,
                   program, profile, options, myTTY, tty, psList, shown, rewired>>

\* Mutant: without an option the terminal is not compared.
KeptAnyTerminal(filter) == filter = "x" => tty \notin {"", "?"}

\* The filter lets the process through.
Kept(filter) ==
    CASE filter = "x" -> tty \notin {"", "?"}
      [] filter = "mine" -> tty = myTTY

\* GetTTY has returned to one of the filters.
Filter ==
    /\ Myps /\ entry # 0 /\ at[2] = "return" /\ at[1] # "add"
    /\ IF ~ Kept(at[1])
       THEN entry' = 0 /\ at' = Nowhere
       ELSE /\ at' = IF at[1] = "x" /\ "mine" \in Filters
                     THEN <<"mine", "access">> ELSE <<"add", "stat">>
            /\ UNCHANGED entry
    /\ tty' = ""
    /\ UNCHANGED <<system, phase, position, buffer, record, times, cpuTimeTable, procList, steady, seen, program, profile, options, myTTY, psList, shown, rewired>>
--------------------------------------------------------------------------------
(***************************************************************************)
(* AddProcessList and PrintPS                                               *)
(***************************************************************************)
\* stat and status: pid, owner and %CPU since the start.  cpuTimeTable is NULL here.
PsReadStat ==
    /\ Myps /\ entry # 0 /\ at = <<"add", "stat">> /\ record = None
    /\ entry \in alive
    /\ record' = [pid |-> entry, uid |-> profile[entry].uid, tty |-> "",
                  cpu |-> Percent(used[entry], uptime - started[entry])]
    /\ at' = <<"add", "access">>
    /\ UNCHANGED <<system, phase, position, buffer, entry, times, cpuTimeTable, procList, steady, seen, program, profile, options, myTTY, tty, psList, shown, rewired>>

\* cmdline is read and the process appended.
PsAddRecord ==
    /\ Myps /\ entry # 0 /\ at = <<"add", "return">>
    /\ entry \in alive
    /\ psList' = Append(psList, [record EXCEPT !.tty = tty])
    /\ entry' = 0 /\ record' = None /\ at' = Nowhere /\ tty' = ""
    /\ UNCHANGED <<system, phase, position, buffer, times, cpuTimeTable, procList, steady, seen,
                   program, profile, options, myTTY, shown, rewired>>

\* A file of the process is gone: AddProcessList returns and the scan goes on.
PsVanished ==
    /\ Myps /\ entry # 0 /\ at \in {<<"add", "stat">>, <<"add", "return">>}
    /\ entry \notin alive
    /\ entry' = 0 /\ record' = None /\ at' = Nowhere /\ tty' = ""
    /\ UNCHANGED <<system, phase, position, buffer, times, cpuTimeTable, procList,
                   steady, seen, program, profile, options, myTTY, psList, shown, rewired>>

\* The columns whose width PrintPS sets to -1 after it has measured all of them; the
\* text of a column with a width is filled up to it in the header and in every row.
Unmeasured ==
    IF On("f") THEN {"USER", "%MEM", "VSZ", "RSS", "STAT", "COMMAND"}
    ELSE {"PPID", "C", "STIME"}
         \cup (IF On("u") THEN {}
               ELSE {"USER", "%CPU", "%MEM", "VSZ", "RSS", "START"})
         \cup (IF Format THEN {"CMD"} ELSE {"STAT", "COMMAND"})

\* Which of the columns before the last one the options ask for.
Asked(column) ==
    CASE column \in {"USER", "%CPU", "%MEM", "VSZ", "RSS", "START"} -> On("u")
      [] column \in {"UID", "PPID", "C", "STIME"} -> On("f")
      [] column = "STAT" -> Format /\ ~ On("e")
      [] OTHER -> TRUE
Columns == SelectSeq(<<"USER", "UID", "PID", "PPID", "C", "STIME", "%CPU", "%MEM", "VSZ",
                       "RSS", "TTY", "STAT", "START", "TIME">>, Asked)

\* The names in the header, and the columns of a row.
Header == IF On("h") THEN <<>>
          ELSE Append(Columns, IF Format /\ ~ On("e") /\ ~ On("f") THEN "COMMAND" ELSE "CMD")
Row == Append(Columns, IF Format \/ On("f") THEN "COMMAND" ELSE "CMD")

\* readdir returns NULL; PrintPS prints the rows, with p those in pidList.
PrintPS ==
    /\ Myps /\ at = Nowhere /\ Scanning /\ buffer = {} /\ Ahead = {}
    /\ phase' = "printed"
    /\ shown' = SelectSeq(psList, LAMBDA row : On("p") => row.pid \in options.pidList)
    /\ UNCHANGED <<system, position, buffer, entry, record, times, cpuTimeTable, procList, steady, seen, program, profile, options, myTTY, at, tty, psList, rewired>>
--------------------------------------------------------------------------------
(***************************************************************************)
(* The system                                                               *)
(***************************************************************************)
\* The profile of a pid without a process: any one, always the same.
Ended == CHOOSE f \in Profiles : TRUE

\* A new process has a profile of its own.
PsSpawn(p) ==
    /\ Myps /\ phase = "first"
    /\ Spawn(p)
    /\ \E f \in Profiles : profile' = [profile EXCEPT ![p] = f]
    /\ UNCHANGED <<program, options, myTTY, at, tty, psList, shown, rewired>>

PsEnd(p) ==
    /\ Myps /\ phase = "first" /\ p # Self
    /\ End(p)
    /\ profile' = [profile EXCEPT ![p] = Ended]
    /\ UNCHANGED <<program, options, myTTY, at, tty, psList, shown, rewired>>

\* A process changes its standard input; at most one does during a scan.
Redirect(p) ==
    /\ Myps /\ phase = "first" /\ p \in alive \ {Self} /\ rewired = {}
    /\ \E f \in Profiles :
         /\ f = [profile[p] EXCEPT !.stdin = f.stdin] /\ f # profile[p]
         /\ profile' = [profile EXCEPT ![p] = f]
    /\ rewired' = rewired \cup {p}
    /\ UNCHANGED <<vars, program, options, myTTY, at, tty, psList, shown>>
--------------------------------------------------------------------------------
\* With mytop there is no process with the pid of myps.
PsInit ==
    /\ Init
    /\ tty = "" /\ psList = <<>> /\ shown = <<>> /\ rewired = {}
    /\ options = Options(<<>>) /\ myTTY = ""
    /\ \/ /\ program = "mytop" /\ Self \notin alive /\ at = Nowhere
          /\ profile = [p \in Pids |-> Ended]
       \/ /\ program = "myps" /\ Self \in alive /\ at = <<"main", "">>
          /\ \A p \in Pids : used[p] = 0
          /\ profile \in [Pids -> Profiles]
          /\ \A p \in Pids \ alive : profile[p] = Ended
          /\ profile[Self].uid = "me"

PsNext ==
    \/ /\ program = "mytop" /\ Next /\ Self \notin alive' /\ UNCHANGED psvars
    \/ Main \/ PsReaddir \/ PsStat \/ Filter \/ PsReadStat \/ PsAddRecord \/ PsVanished \/ PrintPS
    \/ Access \/ Readlink \/ SearchDev
    \/ \E p \in Pids : PsSpawn(p) \/ PsEnd(p) \/ Redirect(p)

PsSpec == PsInit /\ [][PsNext]_allvars
--------------------------------------------------------------------------------
(***************************************************************************)
(* Properties                                                               *)
(***************************************************************************)
\* The meaning of the options in README.md:29-35, for a process that stays as it is.
Chosen(p) ==
    LET everyone == \E o \in {"a", "e", "p"} : On(o)
        anywhere == \E o \in {"x", "e", "p"} : On(o)
        elsewhere == everyone \/ anywhere \/ On("u")
    IN  /\ everyone \/ profile[p].uid = "me"
        /\ anywhere \/ TTY(p) \notin {"", "?"}
        /\ elsewhere \/ TTY(p) = TTY(Self)
        /\ On("p") => p \in options.pidList

\* Of the processes that were there and kept their input during the whole scan myps
\* prints exactly those its options select, each once and with its own owner and
\* terminal; of the others none that was never there.  Every column but the last is
\* filled up, so that it stands below its name, unless f is given.  (Without options
\* myps must not have been started from a terminal whose name main cuts.)
SelectionExact ==
    Myps /\ phase = "printed" =>
        /\ \A n \in DOMAIN shown : shown[n].pid \in seen
        /\ \A m, n \in DOMAIN shown : shown[m].pid = shown[n].pid => m = n
        /\ On("f") \/ ToSet(Front(Row)) \cap Unmeasured = {}
        /\ On("h") \/ Front(Header) = Front(Row)
        /\ \A p \in steady \ rewired :
             LET rows == {n \in DOMAIN shown : shown[n].pid = p}
             IN  /\ TTY(Self) = myTTY => ((rows # {}) <=> Chosen(p))
                 /\ \A n \in rows : /\ shown[n].uid = profile[p].uid
                                    /\ shown[n].tty = TTY(p)
================================================================================
