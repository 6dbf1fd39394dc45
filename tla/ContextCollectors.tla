--------------------------- MODULE ContextCollectors ---------------------------
(***************************************************************************)
(* The two collectors that look at the desktop, each on a worker thread    *)
(* while the desktop goes on changing: collect_visible_applications names  *)
(* the applications that own visible windows, collect_active_window the    *)
(* title and application of the foreground window.  A step is one call of  *)
(* the native boundary (_WindowApi, user32, kernel32, psutil).             *)
(***************************************************************************)
EXTENDS Desktop, FiniteSets

CONSTANTS ProcessName,  \* the executable name of each application, less its .exe
          Secured       \* applications whose process may not be read

Letter == {"a", "b"}
Label == [letter : Letter, capital : BOOLEAN]

ASSUME CollectorConstantsOK ==
    /\ ProcessName \in [App -> [stem : Label \cup {None}, path : BOOLEAN]]
    /\ Secured \subseteq App

VARIABLES
    job,        \* the collector that runs, on Windows or elsewhere
    look        \* how far it is and what it holds, see Start

vars == <<desktopVars, job, look>>

-------------------------------------------------------------------------------
(* Labels *)

\* _application_label: a blank name, or one with a separator in it, is none.
ApplicationLabel(n) == IF n.path THEN None ELSE n.stem

Casefold(label) == IF label.letter = "a" THEN 1 ELSE 2

\* Capitals come before small letters.
Rank(label) == Casefold(label) + (IF label.capital THEN 0 ELSE 2)

\* Slip: the labels are sorted as they are spelled.
BySpelling(x, y) == Rank(x) < Rank(y)
ByCasefold(x, y) == \/ Casefold(x) < Casefold(y)
                    \/ Casefold(x) = Casefold(y) /\ Rank(x) < Rank(y)

\* sorted(names), and of each casefold key the first.
Report(labels) ==
    LET first     == {n \in labels : ~ \E m \in labels : ByCasefold(m, n) /\ Casefold(m) = Casefold(n)}
        before(n) == {m \in first : ByCasefold(m, n)}
    IN [k \in 1..Cardinality(first) |-> CHOOSE n \in first : Cardinality(before(n)) = k - 1]

-------------------------------------------------------------------------------
(* What each native call returns now *)

IsApplicationWindow(h) == Open(h) /\ window[h].shows
ProcessId(h) == IF Open(h) THEN window[h].pid ELSE None
Text(h) == IF Open(h) THEN window[h].text ELSE ""
MayRead(p) == Running(p) /\ app[p] \notin Secured

\* GetWindowTextW copies what fits a buffer of this size with its closing NUL.
Copied(text, size) == IF Width(text) < size THEN text ELSE IF size < 2 THEN "" ELSE "a"

Stripped(text) == IF text \in {"", "blank"} THEN None ELSE text

-------------------------------------------------------------------------------
(* collect_visible_applications *)

Start == [at      |-> "start",
          todo    |-> {},       \* enumerated handles still to be inspected
          hwnd    |-> None,     \* the one that is
          pid     |-> None,     \* the process ID read for it
          name    |-> None,     \* the application name read for that
          length  |-> 0,        \* the length read of its title
          title   |-> None,     \* the title read
          held    |-> None,     \* the process a process handle is open for
          names   |-> {},       \* the labels collected
          outcome |-> None]     \* the public context

Over(result) == look' = [look EXCEPT !.at = "over", !.outcome = result]

UnsupportedPlatform ==
    /\ look.at = "start" /\ job = "elsewhere"
    /\ Over([available |-> FALSE, reason |-> "unsupported_platform"])

\* What is raised unwinds the frames: their locals go, an open process handle would not.
Raise == look' = [Start EXCEPT !.at = "failed", !.held = look.held]

\* A library cannot be loaded, the enumeration fails, or any later step raises something
\* that makes nobody skip a window: the one except clause turns it into the collection error.
CollectionFails ==
    /\ job # "elsewhere"
    /\ look.at \notin {"query", "close", "unwind", "over", "failed"}
    /\ Raise

EnumerateWindows ==
    /\ look.at = "start" /\ job = "visible"
    /\ look' = [look EXCEPT !.at = "next", !.todo = {h \in Hwnd : Open(h)}]

\* Whoever cannot be inspected is skipped.
GoOn(counts, to) == IF counts THEN to ELSE "next"

CheckNextWindow ==
    /\ look.at = "next"
    /\ \E h \in look.todo :
           look' = [look EXCEPT !.at = GoOn(IsApplicationWindow(h), "pid"),
                                !.hwnd = h, !.todo = @ \ {h}]

ReadProcessId ==
    /\ look.at = "pid"
    /\ look' = [look EXCEPT !.at = GoOn(ProcessId(look.hwnd) # None, "name"),
                            !.pid = ProcessId(look.hwnd)]

\* None when psutil raises NoSuchProcess or AccessDenied.
NameRead == IF MayRead(look.pid) THEN ApplicationLabel(ProcessName[app[look.pid]]) ELSE None

\* Slip: one process that cannot be read ends the inspection.
ReadNameOrStop ==
    /\ look.at = "name"
    /\ look' = [look EXCEPT !.at = GoOn(NameRead # None, "recheck"),
                            !.name = NameRead,
                            !.todo = IF MayRead(look.pid) THEN @ ELSE {}]

\* Slip: a process without a name goes on as if it had one.
ReadNameOrNone ==
    /\ look.at = "name"
    /\ look' = [look EXCEPT !.at = "recheck", !.name = NameRead]

ReadName ==
    /\ look.at = "name"
    /\ look' = [look EXCEPT !.at = GoOn(NameRead # None, "recheck"), !.name = NameRead]

Recheck ==
    /\ look.at = "recheck"
    /\ look' = [look EXCEPT !.at = GoOn(IsApplicationWindow(look.hwnd), "same")]

\* Slip: the window is still there, whoever owns it now.
KeepName ==
    /\ look.at = "same"
    /\ look' = [look EXCEPT !.at = "next", !.names = @ \cup {look.name}]

KeepNameOfSameOwner ==
    /\ look.at = "same"
    /\ look' = [look EXCEPT !.at = "next",
                            !.names = IF ProcessId(look.hwnd) = look.pid
                                      THEN @ \cup {look.name} ELSE @]

ReturnNames ==
    /\ look.at = "next" /\ look.todo = {}
    /\ Over([available |-> TRUE, applications |-> Report(look.names)])

-------------------------------------------------------------------------------
(* collect_active_window *)

GetForegroundWindow ==
    /\ look.at = "start" /\ job = "active"
    /\ IF foreground = None
       THEN Over([available |-> FALSE, reason |-> "no_active_window"])
       ELSE look' = [look EXCEPT !.at = "length", !.hwnd = foreground]

ReadTitleLength ==
    LET length == Width(Text(look.hwnd)) IN
    /\ look.at = "length"
    /\ look' = [look EXCEPT !.at = IF length = 0 THEN "owner" ELSE "text", !.length = length]

\* Slip: the buffer has no room for the closing NUL.
ReadTitleTight ==
    /\ look.at = "text"
    /\ look' = [look EXCEPT !.at = "owner",
                            !.title = Stripped(Copied(Text(look.hwnd), look.length))]

ReadTitle ==
    /\ look.at = "text"
    /\ look' = [look EXCEPT !.at = "owner",
                            !.title = Stripped(Copied(Text(look.hwnd), look.length + 1))]

\* Slip: the window that is in front by now.
ReadForegroundOwner ==
    /\ look.at = "owner"
    /\ look' = [look EXCEPT !.at = IF foreground = None THEN "map" ELSE "open",
                            !.pid = IF foreground = None THEN None ELSE ProcessId(foreground)]

ReadOwner ==
    /\ look.at = "owner"
    /\ look' = [look EXCEPT !.at = IF ProcessId(look.hwnd) = None THEN "map" ELSE "open",
                            !.pid = ProcessId(look.hwnd)]

\* A process that is held keeps its ID, even when it has exited.
OpenProcess ==
    /\ look.at = "open"
    /\ look' = IF MayRead(look.pid)
               THEN [look EXCEPT !.at = "query", !.held = [pid |-> look.pid, app |-> app[look.pid]]]
               ELSE [look EXCEPT !.at = "map"]

NameFound ==
    \E found \in {ProcessName[look.held.app].stem, None} :
        look' = [look EXCEPT !.at = "close", !.name = found]

\* Slip: no finally.
QueryUnguarded == look.at = "query" /\ (NameFound \/ Raise)

\* QueryFullProcessImageNameW and the stem of the path it returns; it may fail, or what
\* surrounds it raise, and either way the finally clause is next.
QueryName ==
    /\ look.at = "query"
    /\ \/ NameFound
       \/ look' = [look EXCEPT !.at = "unwind"]

CloseHandle ==
    \/ look.at = "close" /\ look' = [look EXCEPT !.at = "map", !.held = None]
    \/ look.at = "unwind" /\ look' = [Start EXCEPT !.at = "failed"]

\* active_window_context_from_windows_snapshot
MapSnapshot ==
    /\ look.at = "map"
    /\ Over([available        |-> TRUE,
             application_name |-> look.name,
             window_title     |-> look.title,
             reason |-> IF look.title = None THEN "window_title_unavailable"
                        ELSE IF look.name = None THEN "application_name_unavailable"
                        ELSE None])

-------------------------------------------------------------------------------

CollectVisible == EnumerateWindows \/ CheckNextWindow \/ ReadProcessId \/ ReadName
                  \/ Recheck \/ KeepNameOfSameOwner \/ ReturnNames
CollectActive == GetForegroundWindow \/ ReadTitleLength \/ ReadTitle \/ ReadOwner
                 \/ OpenProcess \/ QueryName \/ CloseHandle \/ MapSnapshot

Collect == UnsupportedPlatform \/ CollectionFails \/ CollectVisible \/ CollectActive

\* The desktop may change until the collector has asked its last question.
Asking == /\ look.at \notin {"start", "map", "unwind", "over", "failed"}
          /\ (look.at = "next" => look.todo # {})

\* What the running collector does not look at is left alone: titles and the
\* foreground by the one, whether a window shows by the other.
LooksAt(w) == IF job = "visible" THEN w.text = "blank" ELSE ~w.shows

DesktopChanges ==
    \/ \E h \in Hwnd : CloseWindow(h) \/ \E w \in Windows : LooksAt(w) /\ OpenWindow(h, w)
    \/ \E h \in Hwnd : job = "visible" /\ ShowOrHide(h)
    \/ \E h \in Hwnd : job = "active" /\ (SwitchTo(h) \/ \E text \in Texts : Retitle(h, text))
    \/ \E p \in Pid : Exit(p)
    \/ \E p \in Pid, a \in App : (look.held # None => look.held.pid # p) /\ Launch(p, a)

Init ==
    /\ job \in {"visible", "active", "elsewhere"}
    /\ look = Start
    /\ DesktopInit
    /\ \A h \in Hwnd : Open(h) => LooksAt(window[h])
    /\ job = "visible" => foreground = None

Next == \/ Collect /\ UNCHANGED <<job, desktopVars>>
        \/ Asking /\ DesktopChanges /\ UNCHANGED <<job, look>>

Spec == Init /\ [][Next]_vars

-------------------------------------------------------------------------------
(* Properties *)

Listed == job = "visible" /\ look.at = "over"
Titled == job = "active" /\ look.at = "over" /\ look.hwnd # None

LabelsOf(apps) == {ApplicationLabel(ProcessName[a]) : a \in apps} \ {None}

\* Every variable keeps its type; a window has a process that runs, and only proper
\* labels are collected.
TypeOK ==
    /\ app \in [Pid -> App \cup {None}]
    /\ \A h \in Hwnd : Open(h) => window[h] \in Windows /\ Running(window[h].pid)
    /\ foreground # None => Open(foreground)
    /\ steady \subseteq Hwnd /\ showed \subseteq App
    /\ look.todo \subseteq Hwnd /\ look.names \subseteq Label

\* An application is named only if it had an application window while Core looked, as
\* long as no handle and no process ID is given out more than once in that time
\* (MaxReuse = 1): the second look at the window and at its process catches that
\* (visible_applications.py:104).
NamesHadAWindow == look.names \subseteq LabelsOf(showed)

\* A window that stays as it is, and whose process may be read, is in the report,
\* whatever disappears, is reused or may not be read beside it (lines 95-108).
SteadyWindowsAreListed ==
    Listed => \A h \in steady : window[h].shows /\ app[window[h].pid] \notin Secured =>
        \A label \in LabelsOf({app[window[h].pid]}) :
            \E i \in DOMAIN look.outcome.applications :
                Casefold(look.outcome.applications[i]) = Casefold(label)

\* The report has each application once, under the smallest of the spellings found,
\* in an order that does not depend on case (lines 111-116).
ReportIsCanonical ==
    Listed => LET r == look.outcome.applications IN
        /\ \A i, j \in DOMAIN r : i < j => Casefold(r[i]) < Casefold(r[j])
        /\ {Casefold(r[i]) : i \in DOMAIN r} = {Casefold(n) : n \in look.names}
        /\ \A i \in DOMAIN r : \A n \in look.names :
               r[i] \in look.names /\ (Casefold(n) = Casefold(r[i]) => Rank(r[i]) <= Rank(n))

\* If the window that was in front stays as it is, its whole title is reported, and with
\* it no application but its own, however often the foreground changes in the meantime.
ForegroundIsReportedWhole ==
    Titled /\ look.hwnd \in steady =>
        /\ look.outcome.window_title = Stripped(window[look.hwnd].text)
        /\ look.outcome.application_name
               \in {None, ProcessName[app[window[look.hwnd].pid]].stem}

\* No collection leaves a process handle open, whether it ends in a report or in an error,
\* wherever that is raised (active_window.py:201-215 and 76-77).
ProcessHandlesAreClosed == look.at \in {"over", "failed"} => look.held = None

===============================================================================
