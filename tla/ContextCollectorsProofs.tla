------------------------ MODULE ContextCollectorsProofs ------------------------
(***************************************************************************)
(* Proofs about ContextCollectors, for any number of applications, windows *)
(* and processes.                                                          *)
(***************************************************************************)
EXTENDS ContextCollectors, FiniteSetTheorems, TLAPS

-------------------------------------------------------------------------------
(* The desktop *)

DesktopInv ==
    /\ app \in [Pid -> App \cup {None}]
    /\ window \in [Hwnd -> Windows \cup {None}]
    /\ \A h \in Hwnd : Open(h) => Running(window[h].pid)
    /\ foreground # None => foreground \in Hwnd /\ Open(foreground)
    /\ given \in [Hwnd \cup Pid -> 0..MaxReuse]
    /\ steady \subseteq {h \in Hwnd : Open(h)}
    /\ showed \subseteq App
    /\ \A h \in Hwnd : Open(h) /\ window[h].shows => app[window[h].pid] \in showed
    \* a window there is from the start belongs to a process there is from the start
    /\ \A h \in Hwnd : Open(h) /\ given[h] = 0 => given[window[h].pid] = 0

\* What a change of the desktop may do to a window and to a process: only one that is
\* given out once more gets another owner.
Moves ==
    /\ steady' \subseteq steady /\ showed \subseteq showed'
    /\ \A h \in steady' : window'[h] = window[h]
    /\ \A h \in Hwnd : Open(h)' =>
           IF Open(h) THEN window'[h].pid = window[h].pid
                      ELSE given[h] < MaxReuse /\ given'[h] = given[h] + 1
    /\ \A p \in Pid : Running(p)' =>
           IF Running(p) THEN app'[p] = app[p]
                         ELSE given[p] < MaxReuse /\ given'[p] = given[p] + 1
    /\ \A n \in Hwnd \cup Pid : given'[n] >= given[n]

LEMMA DesktopStarts == DesktopInit => DesktopInv
<1> SUFFICES ASSUME DesktopInit PROVE DesktopInv
  OBVIOUS
<1>1. /\ app \in [Pid -> App \cup {None}] /\ window \in [Hwnd -> Windows \cup {None}]
      /\ \A h \in Hwnd : Open(h) => Running(window[h].pid)
      /\ foreground # None => foreground \in Hwnd /\ Open(foreground)
      /\ given = [n \in Hwnd \cup Pid |-> 0]
      /\ steady = {h \in Hwnd : Open(h)}
      /\ showed = {app[window[h].pid] : h \in {k \in Hwnd : window[k] # None /\ window[k].shows}}
  BY DEF DesktopInit, Showing
<1>2. \A h \in Hwnd : Open(h) => window[h].pid \in Pid /\ app[window[h].pid] \in App
  BY <1>1 DEF Open, Running, Windows
<1>3. showed \subseteq App /\ \A h \in Hwnd : Open(h) /\ window[h].shows => app[window[h].pid] \in showed
  BY <1>1, <1>2 DEF Open
<1>4. given \in [Hwnd \cup Pid -> 0..MaxReuse]
  <2>1. MaxReuse \in Nat
    BY DesktopConstantsOK
  <2>2. 0 \in 0..MaxReuse
    BY <2>1
  <2>3. QED BY <1>1, <2>2
<1>5. QED BY <1>1, <1>2, <1>3, <1>4 DEF DesktopInv

\* A window that is opened, closed, shown, hidden or given another text.
LEMMA RewindowMoves ==
    ASSUME DesktopInv, NEW h \in Hwnd, NEW w \in Windows \cup {None}, Rewindow(h, w),
           w # None => Running(w.pid) /\ (Open(h) => w.pid = window[h].pid),
           \/ UNCHANGED given /\ (Open(h) \/ w = None)
           \/ /\ ~Open(h) /\ given[h] < MaxReuse
              /\ given' = [given EXCEPT ![h] = @ + 1],
           \/ UNCHANGED foreground /\ w # None
           \/ foreground' = IF foreground = h THEN None ELSE foreground
    PROVE  DesktopInv' /\ Moves
<1>1. /\ window' = [window EXCEPT ![h] = w] /\ UNCHANGED app /\ steady' = steady \ {h}
      /\ showed' = showed \cup Showing(app, window')
  BY DEF Rewindow
<1>2. /\ app \in [Pid -> App \cup {None}] /\ window \in [Hwnd -> Windows \cup {None}]
      /\ given \in [Hwnd \cup Pid -> 0..MaxReuse] /\ MaxReuse \in Nat
      /\ Hwnd \cap Pid = {}
  BY DesktopConstantsOK DEF DesktopInv
<1>3. /\ \A k \in Hwnd \ {h} : window'[k] = window[k]
      /\ window'[h] = w /\ window' \in [Hwnd -> Windows \cup {None}]
  BY <1>1, <1>2
<1>4. \A k \in Hwnd : Open(k)' => window'[k].pid \in Pid /\ (Running(window[k].pid))'
                                  /\ app'[window'[k].pid] \in App
  BY <1>1, <1>2, <1>3 DEF DesktopInv, Open, Running, Windows
<1>5. /\ showed' \subseteq App
      /\ \A k \in Hwnd : Open(k)' /\ window'[k].shows => app'[window'[k].pid] \in showed'
  BY <1>1, <1>4 DEF DesktopInv, Showing, Open
<1>6. /\ given' \in [Hwnd \cup Pid -> 0..MaxReuse]
      /\ \A n \in Hwnd \cup Pid : given'[n] >= given[n] /\ (n # h => given'[n] = given[n])
      /\ ~Open(h) /\ Open(h)' => given[h] < MaxReuse /\ given'[h] = given[h] + 1
  <2>1. CASE UNCHANGED given /\ (Open(h) \/ w = None)
    BY <1>2, <1>3, <2>1 DEF Open
  <2>2. CASE ~Open(h) /\ given[h] < MaxReuse /\ given' = [given EXCEPT ![h] = @ + 1]
    <3>1. given[h] + 1 \in 0..MaxReuse
      BY <1>2, <2>2
    <3>2. \A n \in Hwnd \cup Pid : given[n] \in Nat
      BY <1>2
    <3>3. given' \in [Hwnd \cup Pid -> 0..MaxReuse] /\ given'[h] = given[h] + 1
          /\ \A n \in Hwnd \cup Pid : n # h => given'[n] = given[n]
      BY <1>2, <2>2, <3>1
    <3>4. QED BY <2>2, <3>2, <3>3
  <2>3. QED BY <2>1, <2>2
<1>7. \A k \in Hwnd : Open(k)' /\ given'[k] = 0 => given'[window'[k].pid] = 0
  <2>1. SUFFICES ASSUME NEW k \in Hwnd, Open(k)', given'[k] = 0
                 PROVE  Open(k) /\ given[k] = 0 /\ window'[k].pid = window[k].pid
                        /\ given'[window[k].pid] = given[window[k].pid]
    BY DEF DesktopInv
  <2>2. given[k] = 0
    BY <1>2, <1>6, <2>1
  <2>3. Open(k)
    BY <1>2, <1>3, <1>6, <2>1 DEF Open
  <2>4. window'[k].pid = window[k].pid /\ window[k].pid \in Pid
    BY <1>2, <1>3, <2>1, <2>3 DEF Open, Windows
  <2>5. QED BY <1>2, <1>6, <2>2, <2>3, <2>4
<1>8. foreground' # None => foreground' \in Hwnd /\ Open(foreground)'
  BY <1>3, NoneIsNoWindow DEF DesktopInv, Open
<1>9. steady' \subseteq {k \in Hwnd : Open(k)'}
  BY <1>1, <1>3 DEF DesktopInv, Open
<1>10. DesktopInv'
  BY <1>1, <1>2, <1>3, <1>4, <1>5, <1>6, <1>7, <1>8, <1>9 DEF DesktopInv
<1>11. Moves
  <2>1. \A k \in steady' : window'[k] = window[k]
    BY <1>1, <1>3 DEF DesktopInv
  <2>2. \A k \in Hwnd : Open(k)' =>
           IF Open(k) THEN window'[k].pid = window[k].pid
                      ELSE given[k] < MaxReuse /\ given'[k] = given[k] + 1
    BY <1>3, <1>6 DEF Open
  <2>3. \A p \in Pid : Running(p)' => Running(p) /\ app'[p] = app[p]
    BY <1>1 DEF Running
  <2>4. QED BY <1>1, <1>6, <2>1, <2>2, <2>3 DEF Moves
<1>12. QED BY <1>10, <1>11

LEMMA LaunchMoves ==
    ASSUME DesktopInv, NEW p \in Pid, NEW a \in App, Launch(p, a)
    PROVE  DesktopInv' /\ Moves
<1>1. /\ ~Running(p) /\ given[p] < MaxReuse /\ app' = [app EXCEPT ![p] = a]
      /\ given' = [given EXCEPT ![p] = @ + 1]
      /\ UNCHANGED <<window, foreground, steady, showed>>
  BY DEF Launch
<1>2. /\ app \in [Pid -> App \cup {None}] /\ window \in [Hwnd -> Windows \cup {None}]
      /\ given \in [Hwnd \cup Pid -> 0..MaxReuse] /\ MaxReuse \in Nat
      /\ Hwnd \cap Pid = {} /\ None \notin App
  BY DesktopConstantsOK DEF DesktopInv
<1>3. /\ app' \in [Pid -> App \cup {None}] /\ app'[p] = a
      /\ \A q \in Pid \ {p} : app'[q] = app[q]
  BY <1>1, <1>2
<1>4. /\ given' \in [Hwnd \cup Pid -> 0..MaxReuse]
      /\ \A n \in Hwnd \cup Pid : given'[n] >= given[n] /\ (n # p => given'[n] = given[n])
      /\ given'[p] = given[p] + 1
  <2>1. given[p] + 1 \in 0..MaxReuse
    BY <1>1, <1>2
  <2>2. \A n \in Hwnd \cup Pid : given[n] \in Nat
    BY <1>2
  <2>3. given' \in [Hwnd \cup Pid -> 0..MaxReuse] /\ given'[p] = given[p] + 1
        /\ \A n \in Hwnd \cup Pid : n # p => given'[n] = given[n]
    BY <1>1, <1>2, <2>1
  <2>4. QED BY <2>2, <2>3
<1>5. \A h \in Hwnd : Open(h) => window[h].pid \in Pid \ {p}
  BY <1>1, <1>2 DEF DesktopInv, Open, Windows
<1>6. \A h \in Hwnd : Open(h)' <=> Open(h)
  BY <1>1 DEF Open
<1>7. \A h \in Hwnd : Open(h) => /\ app'[window[h].pid] = app[window[h].pid]
                                 /\ app'[window[h].pid] # None
  BY <1>3, <1>5 DEF DesktopInv, Running
<1>8. \A h \in Hwnd : given'[h] = given[h] /\ (Open(h) => given'[window[h].pid] = given[window[h].pid])
  BY <1>2, <1>4, <1>5
<1>9. DesktopInv'
  <2>1. \A h \in Hwnd : Open(h)' => (Running(window[h].pid))'
    BY <1>1, <1>6, <1>7 DEF Running
  <2>2. \A h \in Hwnd : Open(h)' /\ window'[h].shows => app'[window'[h].pid] \in showed'
    BY <1>1, <1>6, <1>7 DEF DesktopInv
  <2>3. \A h \in Hwnd : Open(h)' /\ given'[h] = 0 => given'[window'[h].pid] = 0
    BY <1>1, <1>6, <1>8 DEF DesktopInv
  <2>4. QED BY <1>1, <1>2, <1>3, <1>4, <1>6, <2>1, <2>2, <2>3 DEF DesktopInv
<1>10. Moves
  <2>1. \A q \in Pid : Running(q)' =>
           IF Running(q) THEN app'[q] = app[q]
                         ELSE given[q] < MaxReuse /\ given'[q] = given[q] + 1
    BY <1>1, <1>3, <1>4 DEF Running
  <2>2. QED BY <1>1, <1>4, <1>6, <2>1 DEF Moves
<1>11. QED BY <1>9, <1>10

LEMMA ExitMoves ==
    ASSUME DesktopInv, NEW p \in Pid, Exit(p)
    PROVE  DesktopInv' /\ Moves
<1> DEFINE gone == {h \in Hwnd : Open(h) /\ window[h].pid = p}
<1>1. /\ app' = [app EXCEPT ![p] = None]
      /\ window' = [h \in Hwnd |-> IF h \in gone THEN None ELSE window[h]]
      /\ foreground' = IF foreground \in gone THEN None ELSE foreground
      /\ steady' = steady \ gone /\ UNCHANGED <<given, showed>>
  BY DEF Exit
<1>2. /\ app \in [Pid -> App \cup {None}] /\ window \in [Hwnd -> Windows \cup {None}]
      /\ given \in [Hwnd \cup Pid -> 0..MaxReuse] /\ MaxReuse \in Nat
  BY DesktopConstantsOK DEF DesktopInv
<1>3. /\ app' \in [Pid -> App \cup {None}] /\ app'[p] = None
      /\ \A q \in Pid \ {p} : app'[q] = app[q]
      /\ window' \in [Hwnd -> Windows \cup {None}]
  BY <1>1, <1>2
<1>4. \A h \in Hwnd : Open(h)' => Open(h) /\ window'[h] = window[h] /\ window[h].pid \in Pid \ {p}
  BY <1>1, <1>2 DEF Open, Windows
<1>5. \A h \in Hwnd : Open(h) /\ h \notin gone => Open(h)' /\ window'[h] = window[h]
  BY <1>1 DEF Open
<1>6. DesktopInv'
  <2>1. \A h \in Hwnd : Open(h)' => (Running(window[h].pid))'
    BY <1>3, <1>4 DEF DesktopInv, Running
  <2>2. \A h \in Hwnd : Open(h)' /\ window'[h].shows => app'[window'[h].pid] \in showed'
    BY <1>1, <1>3, <1>4 DEF DesktopInv
  <2>3. \A h \in Hwnd : Open(h)' /\ given'[h] = 0 => given'[window'[h].pid] = 0
    BY <1>1, <1>4 DEF DesktopInv
  <2>4. foreground' # None => foreground' \in Hwnd /\ Open(foreground)'
    BY <1>1, <1>5 DEF DesktopInv, Open
  <2>5. steady' \subseteq {h \in Hwnd : Open(h)'}
    BY <1>1, <1>5 DEF DesktopInv
  <2>6. QED BY <1>1, <1>2, <1>3, <2>1, <2>2, <2>3, <2>4, <2>5 DEF DesktopInv
<1>7. Moves
  <2>1. \A q \in Pid : Running(q)' => Running(q) /\ app'[q] = app[q]
    BY <1>3 DEF Running
  <2>2. \A h \in steady' : window'[h] = window[h]
    BY <1>1, <1>5 DEF DesktopInv
  <2>3. \A n \in Hwnd \cup Pid : given'[n] >= given[n]
    BY <1>1, <1>2
  <2>4. QED BY <1>1, <1>4, <2>1, <2>2, <2>3 DEF Moves
<1>8. QED BY <1>6, <1>7

LEMMA DesktopMoves ==
    ASSUME DesktopInv, DesktopChanges
    PROVE  DesktopInv' /\ Moves
<1>1. ASSUME NEW h \in Hwnd, CloseWindow(h) PROVE DesktopInv' /\ Moves
  BY <1>1, RewindowMoves DEF CloseWindow
<1>2. ASSUME NEW h \in Hwnd, NEW w \in Windows, OpenWindow(h, w) PROVE DesktopInv' /\ Moves
  BY <1>2, RewindowMoves, NoneIsNoWindow DEF OpenWindow
<1>3. ASSUME NEW h \in Hwnd, Open(h),
             \/ \E text \in Texts : Retitle(h, text)
             \/ ShowOrHide(h)
      PROVE  DesktopInv' /\ Moves
  <2>1. window[h] \in Windows /\ Running(window[h].pid)
    BY <1>3 DEF DesktopInv, Open
  <2>2. PICK w \in Windows : /\ Rewindow(h, w) /\ w.pid = window[h].pid
                             /\ UNCHANGED <<foreground, given>>
    <3>1. CASE ShowOrHide(h)
      <4>1. [window[h] EXCEPT !.shows = ~@] \in Windows
            /\ [window[h] EXCEPT !.shows = ~@].pid = window[h].pid
        BY <2>1 DEF Windows
      <4>2. QED BY <3>1, <4>1 DEF ShowOrHide
    <3>2. ASSUME NEW text \in Texts, Retitle(h, text)
          PROVE  \E w \in Windows : /\ Rewindow(h, w) /\ w.pid = window[h].pid
                                    /\ UNCHANGED <<foreground, given>>
      <4>1. [window[h] EXCEPT !.text = text] \in Windows
            /\ [window[h] EXCEPT !.text = text].pid = window[h].pid
        BY <2>1 DEF Windows
      <4>2. QED BY <3>2, <4>1 DEF Retitle
    <3>3. QED BY <1>3, <3>1, <3>2
  <2>3. QED BY <1>3, <2>1, <2>2, RewindowMoves, NoneIsNoWindow
<1>4. ASSUME NEW h \in Hwnd, SwitchTo(h) PROVE DesktopInv' /\ Moves
  <2>1. /\ Open(h) /\ foreground' = h /\ UNCHANGED <<app, window, given, steady, showed>>
    BY <1>4 DEF SwitchTo
  <2>2. DesktopInv'
    BY <2>1 DEF DesktopInv, Open, Running
  <2>3. \A n \in Hwnd \cup Pid : given[n] \in 0..MaxReuse /\ MaxReuse \in Nat
    BY DesktopConstantsOK DEF DesktopInv
  <2>4. Moves
    BY <2>1, <2>3 DEF Moves, Open, Running
  <2>5. QED BY <2>2, <2>4
<1>5. QED
  BY <1>1, <1>2, <1>3, <1>4, LaunchMoves, ExitMoves DEF DesktopChanges, ShowOrHide, Retitle

-------------------------------------------------------------------------------
(* The collectors *)

LookInv ==
    /\ look = [at |-> look.at, todo |-> look.todo, hwnd |-> look.hwnd, pid |-> look.pid,
               name |-> look.name, length |-> look.length, title |-> look.title,
               held |-> look.held, names |-> look.names, outcome |-> look.outcome]
    /\ job \in {"visible", "active", "elsewhere"}
    /\ look.todo \subseteq Hwnd /\ look.names \subseteq Label
    /\ look.at = "start" => look = Start
    /\ look.at \in {"pid", "name", "recheck", "same"} => job = "visible" /\ look.hwnd \in Hwnd
    /\ look.at \in {"name", "recheck", "same"} => look.pid \in Pid
    /\ look.at \in {"recheck", "same"} => look.name \in Label \ {None}
    /\ look.at = "next" => job = "visible"
    /\ look.at \in {"length", "text", "owner", "open", "query", "close", "unwind", "map"} =>
           job = "active" /\ look.hwnd \in Hwnd
    /\ look.at \in {"open", "query", "close"} => look.pid \in Pid
    /\ look.at \in {"query", "close", "unwind"} => look.held.app \in App
    /\ look.at \notin {"query", "close", "unwind"} => look.held = None
    /\ job = "visible" /\ look.at = "over" => look.outcome.applications = Report(look.names)
    /\ job = "visible" => look.at \in {"start", "next", "pid", "name", "recheck", "same",
                                       "over", "failed"}

\* A window that stays as it is, and whose application may be named, is still to be
\* inspected, is being inspected, or is listed.
Listable(h) == h \in steady /\ window[h].shows /\ app[window[h].pid] \notin Secured
LabelOf(h) == ApplicationLabel(ProcessName[app[window[h].pid]])

SteadyInv == \A h \in Hwnd :
    job = "visible" /\ look.at \notin {"start", "failed"} /\ Listable(h) /\ LabelOf(h) # None =>
        \/ look.at # "over" /\ h \in look.todo
        \/ LabelOf(h) \in look.names
        \/ /\ look.hwnd = h /\ look.at \in {"pid", "name", "recheck", "same"}
           /\ look.at \in {"name", "recheck", "same"} => look.pid = window[h].pid
           /\ look.at \in {"recheck", "same"} => look.name = LabelOf(h)

\* What has been read of a foreground window that stays as it is.
FrontInv == job = "active" /\ look.at \notin {"start", "failed"} /\ look.hwnd \in steady =>
    LET w == window[look.hwnd] IN
    /\ look.at = "length" => look.title = None
    /\ look.at = "text" => look.length = Width(w.text)
    /\ look.at \in {"owner", "open", "query", "close", "map"} => look.title = Stripped(w.text)
    /\ look.at = "open" => look.pid = w.pid
    /\ look.at = "query" => look.held.app = app[w.pid]
    /\ look.at \in {"length", "text", "owner", "open", "query"} => look.name = None
    /\ look.at \in {"close", "map"} => look.name \in {None, ProcessName[app[w.pid]].stem}
    /\ look.at = "over" =>
           /\ look.outcome.window_title = Stripped(w.text)
           /\ look.outcome.application_name \in {None, ProcessName[app[w.pid]].stem}

\* Where a name comes from, as long as nothing is given out twice.  The process that
\* was asked for its name either was there from the start and has been seen to show a
\* window, or was started since and cannot be replaced once more; or the window was
\* opened since, and is not opened once more.
Named == look.name \in LabelsOf(showed)
Belongs(a) == look.name = ApplicationLabel(ProcessName[a])
NeverAgain == given[look.hwnd] # 0

ReuseInv ==
    /\ look.names \subseteq LabelsOf(showed)
    /\ look.at = "pid" /\ ~NeverAgain /\ Open(look.hwnd) => app[window[look.hwnd].pid] \in showed
    /\ look.at = "name" =>
           \/ /\ given[look.pid] = 0 /\ Running(look.pid) => app[look.pid] \in showed
              /\ Open(look.hwnd) /\ ~NeverAgain => window[look.hwnd].pid = look.pid
           \/ NeverAgain /\ (Open(look.hwnd) => window[look.hwnd].pid = look.pid)
    /\ look.at = "recheck" =>
           \/ Named
           \/ /\ given[look.pid] # 0 /\ (Running(look.pid) => Belongs(app[look.pid]))
              /\ Open(look.hwnd) => NeverAgain
           \/ /\ NeverAgain
              /\ Open(look.hwnd) => /\ window[look.hwnd].pid = look.pid
                                    /\ Belongs(app[look.pid])
    /\ look.at = "same" =>
           \/ Named
           \/ NeverAgain /\ (Open(look.hwnd) => window[look.hwnd].pid # look.pid)

\* Nothing but the desktop moves: what holds of a window that stays as it is goes on to.
LEMMA LookKeeps ==
    ASSUME DesktopInv, DesktopInv', Moves, UNCHANGED <<job, look>>, LookInv, SteadyInv, FrontInv
    PROVE  LookInv' /\ SteadyInv' /\ FrontInv'
<1>1. LookInv'
  BY DEF LookInv
<1>2. \A h \in steady' : /\ h \in steady /\ h \in Hwnd /\ window'[h] = window[h]
                         /\ Open(h) /\ window[h].pid \in Pid /\ Running(window[h].pid)
  BY DEF Moves, DesktopInv, Open, Windows
<1>3. \A h \in steady' : app'[window[h].pid] = app[window[h].pid]
  BY <1>2 DEF Moves, DesktopInv
<1>4. SteadyInv'
  <2>1. \A h \in Hwnd : Listable(h)' => Listable(h) /\ LabelOf(h)' = LabelOf(h)
    BY <1>2, <1>3 DEF Listable, LabelOf
  <2>2. \A h \in Hwnd : Listable(h)' => window'[h] = window[h]
    BY <1>2 DEF Listable
  <2>3. QED BY <2>1, <2>2 DEF SteadyInv
<1>5. FrontInv'
  BY <1>2, <1>3 DEF FrontInv
<1>6. QED BY <1>1, <1>4, <1>5

\* What the name of a process is taken for.
LEMMA LabelsAreProper ==
    /\ \A a \in App : /\ ApplicationLabel(ProcessName[a]) \in Label \cup {None}
                      /\ ProcessName[a].stem \in Label \cup {None}
    /\ NameRead # None /\ look.pid \in Pid /\ DesktopInv =>
           /\ NameRead \in Label /\ app[look.pid] \in App
           /\ NameRead = ApplicationLabel(ProcessName[app[look.pid]])
<1>1. \A a \in App : ProcessName[a].stem \in Label \cup {None}
  BY CollectorConstantsOK
<1>2. \A a \in App : ApplicationLabel(ProcessName[a]) \in Label \cup {None}
  BY <1>1 DEF ApplicationLabel
<1>3. ASSUME NameRead # None, look.pid \in Pid, DesktopInv
      PROVE  /\ NameRead \in Label /\ app[look.pid] \in App
             /\ NameRead = ApplicationLabel(ProcessName[app[look.pid]])
  <2>1. MayRead(look.pid) /\ NameRead = ApplicationLabel(ProcessName[app[look.pid]])
    BY <1>3 DEF NameRead
  <2>2. app[look.pid] \in App
    BY <1>3, <2>1 DEF MayRead, Running, DesktopInv
  <2>3. QED BY <1>2, <1>3, <2>1, <2>2
<1>4. QED BY <1>1, <1>2, <1>3

\* The steps of collect_visible_applications.
LEMMA VisibleKeeps ==
    ASSUME DesktopInv, LookInv, SteadyInv, FrontInv, CollectVisible, UNCHANGED <<job, desktopVars>>
    PROVE  LookInv' /\ SteadyInv' /\ FrontInv'
<1>1. UNCHANGED <<job, app, window, foreground, given, steady, showed>>
  BY DEF desktopVars
<1>2. \A h \in Hwnd : (Listable(h)' <=> Listable(h)) /\ LabelOf(h)' = LabelOf(h)
  BY <1>1 DEF Listable, LabelOf
<1>3. \A h \in Hwnd : Listable(h) => Open(h) /\ IsApplicationWindow(h)
                                     /\ ProcessId(h) = window[h].pid
                                     /\ window[h].pid \in Pid /\ MayRead(window[h].pid)
  BY DEF Listable, IsApplicationWindow, ProcessId, DesktopInv, Open, Windows, MayRead
<1>4. job = "visible" /\ FrontInv'
  BY <1>1 DEF CollectVisible, EnumerateWindows, CheckNextWindow, ReadProcessId, ReadName, Recheck,
              KeepNameOfSameOwner, ReturnNames, LookInv, FrontInv
<1>5. CASE EnumerateWindows
  <2>1. look' = [Start EXCEPT !.at = "next", !.todo = {h \in Hwnd : Open(h)}]
    BY <1>5 DEF EnumerateWindows, LookInv
  <2>2. LookInv'
    BY <1>1, <1>4, <2>1 DEF LookInv, Start
  <2>3. SteadyInv'
    BY <1>1, <1>2, <1>3, <2>1 DEF SteadyInv, Start
  <2>4. QED BY <1>4, <2>2, <2>3
<1>6. CASE CheckNextWindow
  <2>1. PICK h \in look.todo :
            look' = [look EXCEPT !.at = GoOn(IsApplicationWindow(h), "pid"),
                                 !.hwnd = h, !.todo = @ \ {h}]
    BY <1>6 DEF CheckNextWindow
  <2>2. look.at = "next" /\ h \in Hwnd
    BY <1>6 DEF CheckNextWindow, LookInv
  <2>3. /\ look'.at = GoOn(IsApplicationWindow(h), "pid") /\ look'.hwnd = h
        /\ look'.todo = look.todo \ {h} /\ look'.names = look.names
    BY <2>1 DEF LookInv
  <2>4. LookInv'
    BY <1>1, <1>4, <2>1, <2>2 DEF LookInv, GoOn
  <2>5. SteadyInv'
    BY <1>1, <1>2, <1>3, <2>2, <2>3 DEF SteadyInv, GoOn
  <2>6. QED BY <1>4, <2>4, <2>5
<1>7. CASE ReadProcessId
  <2>1. /\ look.at = "pid" /\ look.hwnd \in Hwnd
        /\ look' = [look EXCEPT !.at = GoOn(ProcessId(look.hwnd) # None, "name"),
                                !.pid = ProcessId(look.hwnd)]
    BY <1>7 DEF ReadProcessId, LookInv
  <2>2. ProcessId(look.hwnd) \in Pid \cup {None}
    BY <2>1 DEF ProcessId, DesktopInv, Open, Windows
  <2>3. LookInv'
    BY <1>1, <1>4, <2>1, <2>2 DEF LookInv, GoOn
  <2>4. SteadyInv'
    <3>1. /\ look'.at = GoOn(ProcessId(look.hwnd) # None, "name")
          /\ look'.pid = ProcessId(look.hwnd) /\ look'.hwnd = look.hwnd
          /\ look'.todo = look.todo /\ look'.names = look.names
      BY <2>1 DEF LookInv
    <3>2. None \notin Pid
      BY DesktopConstantsOK
    <3>3. QED BY <1>1, <1>2, <1>3, <2>1, <3>1, <3>2 DEF SteadyInv, GoOn
  <2>5. QED BY <1>4, <2>3, <2>4
<1>8. CASE ReadName
  <2>1. /\ look.at = "name" /\ look.pid \in Pid
        /\ look' = [look EXCEPT !.at = GoOn(NameRead # None, "recheck"), !.name = NameRead]
    BY <1>8 DEF ReadName, LookInv
  <2>2. NameRead # None => NameRead \in Label
    BY <2>1, LabelsAreProper
  <2>3. LookInv'
    BY <1>1, <1>4, <2>1, <2>2 DEF LookInv, GoOn
  <2>4. SteadyInv'
    <3>1. /\ look'.at = GoOn(NameRead # None, "recheck") /\ look'.name = NameRead
          /\ look'.pid = look.pid /\ look'.hwnd = look.hwnd
          /\ look'.todo = look.todo /\ look'.names = look.names
      BY <2>1 DEF LookInv
    <3>2. \A h \in Hwnd : Listable(h) /\ look.pid = window[h].pid => NameRead = LabelOf(h)
      BY <1>3 DEF NameRead, LabelOf
    <3>3. QED BY <1>1, <1>2, <2>1, <3>1, <3>2 DEF SteadyInv, GoOn
  <2>5. QED BY <1>4, <2>3, <2>4
<1>9. CASE Recheck
  <2>1. /\ look.at = "recheck"
        /\ look' = [look EXCEPT !.at = GoOn(IsApplicationWindow(look.hwnd), "same")]
    BY <1>9 DEF Recheck
  <2>2. LookInv'
    BY <1>1, <1>4, <2>1 DEF LookInv, GoOn
  <2>3. SteadyInv'
    <3>1. /\ look'.at = GoOn(IsApplicationWindow(look.hwnd), "same") /\ look'.name = look.name
          /\ look'.pid = look.pid /\ look'.hwnd = look.hwnd
          /\ look'.todo = look.todo /\ look'.names = look.names
      BY <2>1 DEF LookInv
    <3>2. QED BY <1>1, <1>2, <1>3, <2>1, <3>1 DEF SteadyInv, GoOn
  <2>4. QED BY <1>4, <2>2, <2>3
<1>10. CASE KeepNameOfSameOwner
  <2> DEFINE kept == IF ProcessId(look.hwnd) = look.pid THEN look.names \cup {look.name}
                                                        ELSE look.names
  <2>1. look.at = "same" /\ look' = [look EXCEPT !.at = "next", !.names = kept]
    BY <1>10 DEF KeepNameOfSameOwner, LookInv
  <2>2. kept \subseteq Label
    BY <2>1 DEF LookInv
  <2>3. LookInv'
    <3> HIDE DEF kept
    <3>1. QED BY <1>1, <1>4, <2>1, <2>2 DEF LookInv
  <2>4. SteadyInv'
    <3>1. look'.at = "next" /\ look'.todo = look.todo /\ look'.names = kept
      BY <2>1 DEF LookInv
    <3>2. QED BY <1>1, <1>2, <1>3, <2>1, <3>1 DEF SteadyInv
  <2>5. QED BY <1>4, <2>3, <2>4
<1>11. CASE ReturnNames
  <2> DEFINE result == [available |-> TRUE, applications |-> Report(look.names)]
  <2>1. look.at = "next" /\ look.todo = {}
        /\ look' = [look EXCEPT !.at = "over", !.outcome = result]
    BY <1>11 DEF ReturnNames, Over
  <2>2. result.applications = Report(look.names)
    OBVIOUS
  <2> HIDE DEF result
  <2>3. /\ look'.at = "over" /\ look'.outcome = result /\ look'.todo = look.todo
        /\ look'.names = look.names
    BY <2>1 DEF LookInv
  <2>4. LookInv'
    <3>1. Report(look.names)' = Report(look.names)
      BY <2>3
    <3>2. QED BY <1>1, <1>4, <2>1, <2>2, <2>3, <3>1 DEF LookInv
  <2>5. SteadyInv'
    BY <1>1, <1>2, <2>1, <2>3 DEF SteadyInv
  <2>6. QED BY <1>4, <2>4, <2>5
<1>12. QED BY <1>5, <1>6, <1>7, <1>8, <1>9, <1>10, <1>11 DEF CollectVisible

\* The steps of collect_active_window.
LEMMA ActiveKeeps ==
    ASSUME DesktopInv, LookInv, FrontInv, CollectActive, UNCHANGED <<job, desktopVars>>
    PROVE  LookInv' /\ SteadyInv' /\ FrontInv'
<1>1. UNCHANGED <<job, app, window, foreground, given, steady, showed>>
  BY DEF desktopVars
<1>2. job = "active" /\ SteadyInv'
  BY <1>1 DEF CollectActive, GetForegroundWindow, ReadTitleLength, ReadTitle, ReadOwner,
              OpenProcess, QueryName, CloseHandle, MapSnapshot, LookInv, SteadyInv
<1>3. \A h \in steady : /\ Text(h) = window[h].text /\ ProcessId(h) = window[h].pid
                        /\ ProcessId(h) # None
  BY DesktopConstantsOK DEF DesktopInv, Text, ProcessId, Open, Windows
<1>4. CASE GetForegroundWindow
  <2>1. look = Start
    BY <1>4 DEF GetForegroundWindow, LookInv
  <2>2. CASE foreground = None
    <3> DEFINE result == [available |-> FALSE, reason |-> "no_active_window"]
    <3>1. look' = [look EXCEPT !.at = "over", !.outcome = result]
      BY <1>4, <2>2 DEF GetForegroundWindow, Over
    <3> HIDE DEF result
    <3>2. LookInv'
      BY <1>1, <1>2, <2>1, <3>1 DEF LookInv, Start
    <3>3. look'.hwnd = None
      BY <2>1, <3>1 DEF Start
    <3>4. FrontInv'
      BY <1>1, <3>3, DesktopConstantsOK DEF FrontInv, DesktopInv
    <3>5. QED BY <1>2, <3>2, <3>4
  <2>3. CASE foreground # None
    <3>1. look' = [look EXCEPT !.at = "length", !.hwnd = foreground]
      BY <1>4, <2>3 DEF GetForegroundWindow
    <3>2. LookInv'
      BY <1>1, <1>2, <2>1, <2>3, <3>1 DEF LookInv, Start, DesktopInv
    <3>3. FrontInv'
      BY <1>1, <2>1, <3>1 DEF FrontInv, Start
    <3>4. QED BY <1>2, <3>2, <3>3
  <2>4. QED BY <2>2, <2>3
<1>5. CASE ReadTitleLength
  <2> DEFINE length == Width(Text(look.hwnd))
  <2>1. /\ look.at = "length"
        /\ look' = [look EXCEPT !.at = IF length = 0 THEN "owner" ELSE "text",
                                !.length = length]
    BY <1>5 DEF ReadTitleLength
  <2>2. length = 0 => Text(look.hwnd) = ""
    <3>1. \A text : Width(text) = 0 => text = ""
      <4>1. ASSUME NEW text, text # "" PROVE Width(text) # 0
        <5>1. Width(text) \in {1, 2}
          BY <4>1 DEF Width
        <5>2. \A n \in {1, 2} : n # 0
          OBVIOUS
        <5>3. QED BY <5>1, <5>2
      <4>2. QED BY <4>1
    <3>2. QED BY <3>1
  <2> HIDE DEF length
  <2>3. LookInv'
    BY <1>1, <1>2, <2>1 DEF LookInv
  <2>4. FrontInv'
    <3>1. /\ look'.at = (IF length = 0 THEN "owner" ELSE "text") /\ look'.length = length
          /\ look'.hwnd = look.hwnd /\ look'.title = look.title /\ look'.name = look.name
      BY <2>1 DEF LookInv
    <3>2. Stripped("") = None
      BY DEF Stripped
    <3>3. look.hwnd \in steady => length = Width(window[look.hwnd].text)
      BY <1>3 DEF length
    <3>4. look.hwnd \in steady /\ length = 0 => Stripped(window[look.hwnd].text) = None
      BY <1>3, <2>2, <3>2
    <3>5. QED BY <1>1, <1>2, <2>1, <3>1, <3>3, <3>4 DEF FrontInv
  <2>5. QED BY <1>2, <2>3, <2>4
<1>6. CASE ReadTitle
  <2> DEFINE title == Stripped(Copied(Text(look.hwnd), look.length + 1))
  <2>1. look.at = "text" /\ look' = [look EXCEPT !.at = "owner", !.title = title]
    BY <1>6 DEF ReadTitle
  <2>2. look.hwnd \in steady => title = Stripped(window[look.hwnd].text)
    <3>1. ASSUME look.hwnd \in steady
          PROVE  Copied(Text(look.hwnd), look.length + 1) = window[look.hwnd].text
      <4>1. look.length = Width(window[look.hwnd].text)
        BY <1>2, <2>1, <3>1 DEF FrontInv
      <4>2. \A text : Copied(text, Width(text) + 1) = text
        BY DEF Copied, Width
      <4>3. QED BY <1>3, <3>1, <4>1, <4>2
    <3>2. QED BY <3>1
  <2> HIDE DEF title
  <2>3. LookInv'
    BY <1>1, <1>2, <2>1 DEF LookInv
  <2>4. FrontInv'
    <3>1. /\ look'.at = "owner" /\ look'.title = title
          /\ look'.hwnd = look.hwnd /\ look'.name = look.name
      BY <2>1 DEF LookInv
    <3>2. QED BY <1>1, <1>2, <2>1, <2>2, <3>1 DEF FrontInv
  <2>5. QED BY <1>2, <2>3, <2>4
<1>7. CASE ReadOwner
  <2> DEFINE owner == ProcessId(look.hwnd)
  <2>1. /\ look.at = "owner" /\ look.hwnd \in Hwnd
        /\ look' = [look EXCEPT !.at = IF owner = None THEN "map" ELSE "open",
                                !.pid = owner]
    BY <1>7 DEF ReadOwner, LookInv
  <2>2. owner \in Pid \cup {None}
    BY <2>1 DEF ProcessId, DesktopInv, Open, Windows
  <2>3. look.hwnd \in steady => owner = window[look.hwnd].pid /\ owner # None
    BY <1>3
  <2> HIDE DEF owner
  <2>4. LookInv'
    BY <1>1, <1>2, <2>1, <2>2 DEF LookInv
  <2>5. FrontInv'
    <3>1. /\ look'.at = (IF owner = None THEN "map" ELSE "open") /\ look'.pid = owner
          /\ look'.hwnd = look.hwnd /\ look'.name = look.name /\ look'.title = look.title
      BY <2>1 DEF LookInv
    <3>2. QED BY <1>1, <1>2, <2>1, <2>3, <3>1 DEF FrontInv
  <2>6. QED BY <1>2, <2>4, <2>5
<1>8. CASE OpenProcess
  <2>1. look.at = "open" /\ look.pid \in Pid
    BY <1>8 DEF OpenProcess, LookInv
  <2>2. CASE MayRead(look.pid)
    <3> DEFINE held == [pid |-> look.pid, app |-> app[look.pid]]
    <3>1. look' = [look EXCEPT !.at = "query", !.held = held]
      BY <1>8, <2>2 DEF OpenProcess
    <3>2. held.app = app[look.pid] /\ app[look.pid] \in App
      BY <2>1, <2>2 DEF MayRead, Running, DesktopInv
    <3> HIDE DEF held
    <3>3. LookInv'
      BY <1>1, <1>2, <2>1, <3>1, <3>2 DEF LookInv
    <3>4. FrontInv'
      <4>1. /\ look'.at = "query" /\ look'.held = held
            /\ look'.hwnd = look.hwnd /\ look'.name = look.name /\ look'.title = look.title
        BY <3>1 DEF LookInv
      <4>2. QED BY <1>1, <1>2, <2>1, <3>2, <4>1 DEF FrontInv
    <3>5. QED BY <1>2, <3>3, <3>4
  <2>3. CASE ~MayRead(look.pid)
    <3>1. look' = [look EXCEPT !.at = "map"]
      BY <1>8, <2>3 DEF OpenProcess
    <3>2. LookInv'
      BY <1>1, <1>2, <2>1, <3>1 DEF LookInv
    <3>3. FrontInv'
      <4>1. /\ look'.at = "map"
            /\ look'.hwnd = look.hwnd /\ look'.name = look.name /\ look'.title = look.title
        BY <3>1 DEF LookInv
      <4>2. QED BY <1>1, <1>2, <2>1, <4>1 DEF FrontInv
    <3>4. QED BY <1>2, <3>2, <3>3
  <2>4. QED BY <2>2, <2>3
<1>9. CASE QueryName
  <2>1. look.at = "query"
    BY <1>9 DEF QueryName
  <2>2. CASE look' = [look EXCEPT !.at = "unwind"]
    <3>1. LookInv'
      BY <1>1, <1>2, <2>1, <2>2 DEF LookInv
    <3>2. look'.at = "unwind"
      BY <2>2 DEF LookInv
    <3>3. FrontInv'
      BY <3>2 DEF FrontInv
    <3>4. QED BY <1>2, <3>1, <3>3
  <2>3. CASE NameFound
    <3>1. PICK found \in {ProcessName[look.held.app].stem, None} :
              look' = [look EXCEPT !.at = "close", !.name = found]
      BY <2>3 DEF NameFound
    <3>2. LookInv'
      BY <1>1, <1>2, <2>1, <3>1 DEF LookInv
    <3>3. FrontInv'
      <4>1. /\ look'.at = "close" /\ look'.name = found
            /\ look'.hwnd = look.hwnd /\ look'.title = look.title
        BY <3>1 DEF LookInv
      <4>2. QED BY <1>1, <1>2, <2>1, <3>1, <4>1 DEF FrontInv
    <3>4. QED BY <1>2, <3>2, <3>3
  <2>4. QED BY <1>9, <2>2, <2>3 DEF QueryName
<1>10. CASE CloseHandle
  <2>1. CASE look.at = "close" /\ look' = [look EXCEPT !.at = "map", !.held = None]
    <3>1. LookInv'
      BY <1>1, <1>2, <2>1 DEF LookInv
    <3>2. FrontInv'
      <4>1. /\ look'.at = "map"
            /\ look'.hwnd = look.hwnd /\ look'.name = look.name /\ look'.title = look.title
        BY <2>1 DEF LookInv
      <4>2. QED BY <1>1, <1>2, <2>1, <4>1 DEF FrontInv
    <3>3. QED BY <1>2, <3>1, <3>2
  <2>2. CASE look.at = "unwind" /\ look' = [Start EXCEPT !.at = "failed"]
    <3>1. LookInv' /\ FrontInv'
      BY <1>1, <2>2 DEF LookInv, FrontInv, Start
    <3>2. QED BY <1>2, <3>1
  <2>3. QED BY <1>10, <2>1, <2>2 DEF CloseHandle
<1>11. CASE MapSnapshot
  <2>1. /\ look.at = "map"
        /\ \E result : /\ look' = [look EXCEPT !.at = "over", !.outcome = result]
                       /\ result.window_title = look.title
                       /\ result.application_name = look.name
    <3> DEFINE r == [available        |-> TRUE,
                     application_name |-> look.name,
                     window_title     |-> look.title,
                     reason |-> IF look.title = None THEN "window_title_unavailable"
                                ELSE IF look.name = None THEN "application_name_unavailable"
                                ELSE None]
    <3>1. look.at = "map" /\ look' = [look EXCEPT !.at = "over", !.outcome = r]
      BY <1>11 DEF MapSnapshot, Over
    <3>2. r.window_title = look.title /\ r.application_name = look.name
      OBVIOUS
    <3> HIDE DEF r
    <3>3. QED BY <3>1, <3>2
  <2>2. PICK result : /\ look' = [look EXCEPT !.at = "over", !.outcome = result]
                      /\ result.window_title = look.title
                      /\ result.application_name = look.name
    BY <2>1
  <2>3. LookInv'
    BY <1>1, <1>2, <2>1, <2>2 DEF LookInv
  <2>4. FrontInv'
    <3>1. look'.at = "over" /\ look'.outcome = result /\ look'.hwnd = look.hwnd
      BY <2>2 DEF LookInv
    <3>2. QED BY <1>1, <1>2, <2>1, <2>2, <3>1 DEF FrontInv
  <2>5. QED BY <1>2, <2>3, <2>4
<1>12. QED BY <1>4, <1>5, <1>6, <1>7, <1>8, <1>9, <1>10, <1>11 DEF CollectActive

\* There is no desktop to look at, or something was raised.
LEMMA NoLookKeeps ==
    ASSUME LookInv, UnsupportedPlatform \/ CollectionFails, UNCHANGED <<job, desktopVars>>
    PROVE  LookInv' /\ SteadyInv' /\ FrontInv'
<1>1. UNCHANGED job /\ (UnsupportedPlatform => look = Start)
  BY DEF UnsupportedPlatform, LookInv
<1>2. CASE CollectionFails
  <2>1. look.held = None
    BY <1>2 DEF CollectionFails, LookInv
  <2>2. look' = [Start EXCEPT !.at = "failed", !.held = None]
    BY <1>2, <2>1 DEF CollectionFails, Raise
  <2>3. QED BY <1>1, <2>2 DEF LookInv, SteadyInv, FrontInv, Start
<1>3. CASE UnsupportedPlatform
  <2> DEFINE result == [available |-> FALSE, reason |-> "unsupported_platform"]
  <2>1. look' = [Start EXCEPT !.at = "over", !.outcome = result] /\ job = "elsewhere"
    BY <1>1, <1>3 DEF UnsupportedPlatform, Over
  <2> HIDE DEF result
  <2>2. QED BY <1>1, <2>1 DEF LookInv, SteadyInv, FrontInv, Start
<1>4. QED BY <1>2, <1>3

CollectInv == DesktopInv /\ LookInv /\ SteadyInv /\ FrontInv

LEMMA InitEstablishes == Init => CollectInv
<1> SUFFICES ASSUME Init PROVE CollectInv
  OBVIOUS
<1>1. job \in {"visible", "active", "elsewhere"} /\ look = Start /\ DesktopInv
  BY DesktopStarts DEF Init
<1>2. LookInv /\ SteadyInv /\ FrontInv
  BY <1>1 DEF LookInv, SteadyInv, FrontInv, Start
<1>3. QED BY <1>1, <1>2 DEF CollectInv

LEMMA NothingMoves ==
    ASSUME DesktopInv, UNCHANGED desktopVars
    PROVE  DesktopInv' /\ Moves
<1>1. UNCHANGED <<app, window, foreground, given, steady, showed>>
  BY DEF desktopVars
<1>2. DesktopInv'
  BY <1>1 DEF DesktopInv, Open, Running
<1>3. \A n \in Hwnd \cup Pid : given[n] >= given[n]
  <2>1. MaxReuse \in Nat /\ given \in [Hwnd \cup Pid -> 0..MaxReuse]
    BY DesktopConstantsOK DEF DesktopInv
  <2>2. QED BY <2>1
<1>4. Moves
  BY <1>1, <1>3 DEF Moves, Open, Running
<1>5. QED BY <1>2, <1>4

LEMMA NextPreserves == CollectInv /\ [Next]_vars => CollectInv'
<1> SUFFICES ASSUME CollectInv, [Next]_vars PROVE CollectInv'
  OBVIOUS
<1>1. CASE Collect /\ UNCHANGED <<job, desktopVars>>
  BY <1>1, NothingMoves, VisibleKeeps, ActiveKeeps, NoLookKeeps DEF Collect, CollectInv
<1>2. CASE DesktopChanges /\ UNCHANGED <<job, look>>
  BY <1>2, DesktopMoves, LookKeeps DEF CollectInv
<1>3. CASE UNCHANGED vars
  BY <1>3, NothingMoves, LookKeeps DEF CollectInv, vars
<1>4. QED BY <1>1, <1>2, <1>3 DEF Next

LEMMA Inductive == Spec => []CollectInv
<1>1. QED BY InitEstablishes, NextPreserves, PTL DEF Spec

-------------------------------------------------------------------------------
(* Where names come from, as long as nothing is given out twice *)

\* Whoever shows a window may be named.
LEMMA ShownIsNamed ==
    ASSUME NEW a \in showed, NEW n, n # None, n = ApplicationLabel(ProcessName[a])
    PROVE  n \in LabelsOf(showed)
BY DEF LabelsOf

LEMMA ReuseInvMoves ==
    ASSUME MaxReuse <= 1, DesktopInv, DesktopInv', LookInv, ReuseInv, Moves,
           UNCHANGED <<job, look>>
    PROVE  ReuseInv'
<1>1. /\ \A n \in Hwnd \cup Pid : given[n] \in {0, 1} /\ given'[n] \in {0, 1}
      /\ \A n \in Hwnd \cup Pid : given'[n] >= given[n]
      /\ \A h \in Hwnd : given[h] < MaxReuse => given[h] = 0
      /\ \A p \in Pid : given[p] < MaxReuse => given[p] = 0
  <2>1. MaxReuse \in Nat /\ given \in [Hwnd \cup Pid -> 0..MaxReuse]
        /\ given' \in [Hwnd \cup Pid -> 0..MaxReuse]
    BY DesktopConstantsOK DEF DesktopInv
  <2>2. MaxReuse \in {0, 1} /\ 0..MaxReuse \subseteq {0, 1}
    BY <2>1
  <2>3. QED BY <2>1, <2>2 DEF Moves
<1>2. \A h \in Hwnd : Open(h)' =>
          /\ given[h] # 0 => /\ given'[h] # 0 /\ Open(h) /\ window'[h].pid = window[h].pid
          /\ given'[h] = 0 => /\ given[h] = 0 /\ Open(h) /\ window'[h].pid = window[h].pid
  BY <1>1 DEF Moves
<1>3. \A h \in Hwnd : given[h] # 0 => given'[h] # 0
  BY <1>1
<1>4. \A p \in Pid : /\ given[p] # 0 => given'[p] # 0
                     /\ Running(p)' =>
                          /\ given[p] # 0 => Running(p) /\ app'[p] = app[p]
                          /\ given'[p] = 0 => given[p] = 0 /\ Running(p) /\ app'[p] = app[p]
  BY <1>1 DEF Moves
<1>5. \A h \in Hwnd : Open(h) /\ Open(h)' =>
          /\ window[h].pid \in Pid
          /\ window'[h].pid = window[h].pid => app'[window[h].pid] = app[window[h].pid]
  BY DEF Moves, DesktopInv, Open, Windows
<1>6. showed \subseteq showed' /\ LabelsOf(showed) \subseteq LabelsOf(showed')
  BY DEF Moves, LabelsOf
<1>7. look.names \subseteq LabelsOf(showed')
  BY <1>6 DEF ReuseInv
<1>8. CASE look.at = "pid"
  BY <1>2, <1>5, <1>6, <1>7, <1>8 DEF ReuseInv, LookInv, NeverAgain
<1>9. CASE look.at = "name"
  BY <1>2, <1>3, <1>4, <1>6, <1>7, <1>9 DEF ReuseInv, LookInv, NeverAgain
<1>10. CASE look.at = "recheck"
  BY <1>2, <1>3, <1>4, <1>5, <1>6, <1>7, <1>10 DEF ReuseInv, LookInv, NeverAgain, Named, Belongs
<1>11. CASE look.at = "same"
  BY <1>2, <1>3, <1>6, <1>7, <1>11 DEF ReuseInv, LookInv, NeverAgain, Named
<1>12. CASE look.at \notin {"pid", "name", "recheck", "same"}
  BY <1>7, <1>12 DEF ReuseInv
<1>13. QED BY <1>8, <1>9, <1>10, <1>11, <1>12

LEMMA ReuseInvVisible ==
    ASSUME MaxReuse <= 1, DesktopInv, LookInv, ReuseInv, CollectVisible,
           UNCHANGED <<job, desktopVars>>
    PROVE  ReuseInv'
<1>1. UNCHANGED <<job, app, window, foreground, given, steady, showed>>
  BY DEF desktopVars
<1>2. UNCHANGED LabelsOf(showed)
  BY <1>1 DEF LabelsOf
<1>3. \A h \in Hwnd : Open(h)' <=> Open(h)
  BY <1>1 DEF Open
<1>4. look.names \subseteq LabelsOf(showed)
  BY DEF ReuseInv
<1>5. CASE EnumerateWindows
  <2>1. look'.at = "next" /\ look'.names = look.names
    BY <1>5 DEF EnumerateWindows, LookInv
  <2>2. QED BY <1>2, <1>4, <2>1 DEF ReuseInv
<1>6. CASE CheckNextWindow
  <2>1. PICK h \in Hwnd : /\ look'.at = GoOn(IsApplicationWindow(h), "pid")
                          /\ look'.hwnd = h /\ look'.names = look.names
    BY <1>6 DEF CheckNextWindow, LookInv
  <2>2. IsApplicationWindow(h) => app[window[h].pid] \in showed
    BY DEF DesktopInv, IsApplicationWindow
  <2>3. QED BY <1>1, <1>2, <1>4, <2>1, <2>2 DEF ReuseInv, GoOn, NeverAgain
<1>7. CASE ReadProcessId
  <2>1. /\ look.at = "pid" /\ look.hwnd \in Hwnd
        /\ look'.at = GoOn(ProcessId(look.hwnd) # None, "name")
        /\ look'.pid = ProcessId(look.hwnd) /\ look'.hwnd = look.hwnd
        /\ look'.names = look.names
    BY <1>7 DEF ReadProcessId, LookInv
  <2>2. CASE look'.at = "next"
    BY <1>2, <1>4, <2>1, <2>2 DEF ReuseInv
  <2>3. CASE look'.at # "next"
    <3>1. look'.at = "name" /\ Open(look.hwnd) /\ look'.pid = window[look.hwnd].pid
      BY <2>1, <2>3 DEF GoOn, ProcessId
    <3>2. ~NeverAgain => app[look'.pid] \in showed
      BY <2>1, <3>1 DEF ReuseInv
    <3>3. \/ /\ (given[look.pid] = 0 /\ Running(look.pid) => app[look.pid] \in showed)'
             /\ (Open(look.hwnd) /\ ~NeverAgain => window[look.hwnd].pid = look.pid)'
          \/ (NeverAgain /\ (Open(look.hwnd) => window[look.hwnd].pid = look.pid))'
      BY <1>1, <2>1, <3>1, <3>2 DEF NeverAgain, Running
    <3>4. QED BY <1>2, <1>4, <2>1, <3>1, <3>3 DEF ReuseInv
  <2>4. QED BY <2>2, <2>3
<1>8. CASE ReadName
  <2>1. /\ look.at = "name" /\ look.hwnd \in Hwnd /\ look.pid \in Pid
        /\ look'.at = GoOn(NameRead # None, "recheck") /\ look'.name = NameRead
        /\ look'.pid = look.pid /\ look'.hwnd = look.hwnd /\ look'.names = look.names
    BY <1>8 DEF ReadName, LookInv
  <2>2. CASE look'.at = "next"
    BY <1>2, <1>4, <2>1, <2>2 DEF ReuseInv
  <2>3. CASE look'.at # "next"
    <3>1. look'.at = "recheck" /\ NameRead # None
      BY <2>1, <2>3 DEF GoOn
    <3>2. /\ NameRead = ApplicationLabel(ProcessName[app[look.pid]])
          /\ Running(look.pid)
      BY <2>1, <3>1, LabelsAreProper DEF NameRead, MayRead
    <3>3. app[look.pid] \in showed => NameRead \in LabelsOf(showed)
      BY <3>1, <3>2, ShownIsNamed
    <3>4. Open(look.hwnd) /\ ~NeverAgain => given[window[look.hwnd].pid] = 0
      BY <2>1 DEF DesktopInv, NeverAgain
    <3>5. \/ app[look.pid] \in showed
          \/ given[look.pid] # 0 /\ (Open(look.hwnd) => NeverAgain)
          \/ NeverAgain /\ (Open(look.hwnd) => window[look.hwnd].pid = look.pid)
      BY <2>1, <3>2, <3>4 DEF ReuseInv
    <3>6. CASE app[look.pid] \in showed
      BY <1>2, <1>4, <2>1, <3>1, <3>3, <3>6 DEF ReuseInv, Named
    <3>7. CASE given[look.pid] # 0 /\ (Open(look.hwnd) => NeverAgain)
      <4>1. (/\ given[look.pid] # 0 /\ (Running(look.pid) => Belongs(app[look.pid]))
             /\ Open(look.hwnd) => NeverAgain)'
        BY <1>1, <1>3, <2>1, <3>2, <3>7 DEF Belongs, NeverAgain
      <4>2. QED BY <1>2, <1>4, <2>1, <3>1, <4>1 DEF ReuseInv
    <3>8. CASE NeverAgain /\ (Open(look.hwnd) => window[look.hwnd].pid = look.pid)
      <4>1. (/\ NeverAgain
             /\ Open(look.hwnd) => /\ window[look.hwnd].pid = look.pid
                                   /\ Belongs(app[look.pid]))'
        BY <1>1, <1>3, <2>1, <3>2, <3>8 DEF Belongs, NeverAgain
      <4>2. QED BY <1>2, <1>4, <2>1, <3>1, <4>1 DEF ReuseInv
    <3>9. QED BY <3>5, <3>6, <3>7, <3>8
  <2>4. QED BY <2>2, <2>3
<1>9. CASE Recheck
  <2>1. /\ look.at = "recheck" /\ look.hwnd \in Hwnd /\ look.pid \in Pid /\ look.name # None
        /\ look'.at = GoOn(IsApplicationWindow(look.hwnd), "same") /\ look'.name = look.name
        /\ look'.pid = look.pid /\ look'.hwnd = look.hwnd /\ look'.names = look.names
    BY <1>9 DEF Recheck, LookInv
  <2>2. CASE look'.at = "next"
    BY <1>2, <1>4, <2>1, <2>2 DEF ReuseInv
  <2>3. CASE look'.at # "next"
    <3>1. /\ look'.at = "same" /\ Open(look.hwnd) /\ app[window[look.hwnd].pid] \in showed
          /\ Running(window[look.hwnd].pid)
      BY <2>1, <2>3 DEF GoOn, IsApplicationWindow, DesktopInv
    <3>2. \A a \in showed : Belongs(a) => Named
      BY <2>1, ShownIsNamed DEF Belongs, Named
    <3>3. Named \/ (NeverAgain /\ window[look.hwnd].pid # look.pid)
      BY <2>1, <3>1, <3>2 DEF ReuseInv
    <3>4. Named' \/ (NeverAgain /\ (Open(look.hwnd) => window[look.hwnd].pid # look.pid))'
      BY <1>1, <1>2, <2>1, <3>3 DEF Named, NeverAgain
    <3>5. QED BY <1>2, <1>4, <2>1, <3>1, <3>4 DEF ReuseInv
  <2>4. QED BY <2>2, <2>3
<1>10. CASE KeepNameOfSameOwner
  <2>1. /\ look.at = "same" /\ look.pid \in Pid /\ look'.at = "next"
        /\ look'.names = IF ProcessId(look.hwnd) = look.pid
                         THEN look.names \cup {look.name} ELSE look.names
    BY <1>10 DEF KeepNameOfSameOwner, LookInv
  <2>2. ProcessId(look.hwnd) = look.pid =>
            Open(look.hwnd) /\ window[look.hwnd].pid = look.pid
    BY <2>1, DesktopConstantsOK DEF ProcessId
  <2>3. ProcessId(look.hwnd) = look.pid => look.name \in LabelsOf(showed)
    BY <2>1, <2>2 DEF ReuseInv, Named
  <2>4. QED BY <1>2, <1>4, <2>1, <2>3 DEF ReuseInv
<1>11. CASE ReturnNames
  <2>1. look'.at = "over" /\ look'.names = look.names
    BY <1>11 DEF ReturnNames, Over, LookInv
  <2>2. QED BY <1>2, <1>4, <2>1 DEF ReuseInv
<1>12. QED BY <1>5, <1>6, <1>7, <1>8, <1>9, <1>10, <1>11 DEF CollectVisible

\* No name is collected by anything else.
LEMMA ReuseInvElsewhere ==
    ASSUME LookInv, ReuseInv, UNCHANGED <<job, desktopVars>>,
           CollectActive \/ UnsupportedPlatform \/ CollectionFails
    PROVE  ReuseInv'
<1>1. UNCHANGED LabelsOf(showed)
  BY DEF LabelsOf, desktopVars
<1>2. CASE look' \in {[Start EXCEPT !.at = "failed"], [Start EXCEPT !.at = "failed", !.held = look.held]}
  BY <1>1, <1>2 DEF ReuseInv, Start
<1>3. CASE look' \notin {[Start EXCEPT !.at = "failed"], [Start EXCEPT !.at = "failed", !.held = look.held]}
  <2>1. look'.names = look.names /\ look'.at \notin {"pid", "name", "recheck", "same"}
    BY <1>3 DEF CollectActive, GetForegroundWindow, ReadTitleLength, ReadTitle, ReadOwner,
         OpenProcess, QueryName, NameFound, CloseHandle, MapSnapshot, UnsupportedPlatform,
         CollectionFails, Raise, Over, LookInv
  <2>2. QED BY <1>1, <2>1 DEF ReuseInv
<1>4. QED BY <1>2, <1>3

LEMMA ReuseInductive ==
    ASSUME MaxReuse <= 1
    PROVE  Spec => []ReuseInv
<1>1. Init => ReuseInv
  BY DEF Init, Start, ReuseInv
<1>2. ASSUME CollectInv, ReuseInv, [Next]_vars PROVE ReuseInv'
  <2>1. CASE Collect /\ UNCHANGED <<job, desktopVars>>
    BY <1>2, <2>1, ReuseInvVisible, ReuseInvElsewhere DEF Collect, CollectInv
  <2>2. CASE DesktopChanges /\ UNCHANGED <<job, look>>
    BY <1>2, <2>2, DesktopMoves, ReuseInvMoves DEF CollectInv
  <2>3. CASE UNCHANGED vars
    BY <1>2, <2>3, NothingMoves, ReuseInvMoves DEF CollectInv, vars
  <2>4. QED BY <1>2, <2>1, <2>2, <2>3 DEF Next
<1>3. QED BY <1>1, <1>2, Inductive, PTL DEF Spec

-------------------------------------------------------------------------------
(* The report *)

First(L) == {n \in L : ~ \E m \in L : ByCasefold(m, n) /\ Casefold(m) = Casefold(n)}
Before(L, n) == {m \in First(L) : ByCasefold(m, n)}

LEMMA ReportByRank ==
    ASSUME NEW L
    PROVE  Report(L) = [k \in 1..Cardinality(First(L)) |->
                            CHOOSE n \in First(L) : Cardinality(Before(L, n)) = k - 1]
BY DEF Report, First, Before

\* The spellings of a name differ in the capital, and it comes first.
LEMMA Spellings ==
    /\ \A n \in Label : Casefold(n) \in {1, 2} /\ Rank(n) \in {Casefold(n), Casefold(n) + 2}
    /\ \A m, n \in Label : Casefold(m) = Casefold(n) /\ Rank(m) = Rank(n) => m = n
    /\ \A m, n \in Label : ByCasefold(m, n) <=>
           Casefold(m) < Casefold(n) \/ (Casefold(m) = Casefold(n) /\ Rank(m) < Rank(n))
<1>1. \A n \in Label : Casefold(n) \in {1, 2} /\ Rank(n) \in {Casefold(n), Casefold(n) + 2}
  BY DEF Label, Casefold, Rank
<1>2. ASSUME NEW m \in Label, NEW n \in Label, Casefold(m) = Casefold(n), Rank(m) = Rank(n)
      PROVE  m = n
  <2>1. m.letter = n.letter
    BY <1>2 DEF Label, Letter, Casefold
  <2>2. m.capital = n.capital
    BY <1>1, <1>2 DEF Label, Rank
  <2>3. QED BY <2>1, <2>2 DEF Label
<1>3. QED BY <1>1, <1>2 DEF ByCasefold

LEMMA OfEachTheFirst ==
    ASSUME NEW L, L \subseteq Label
    PROVE  /\ \A n : n \in First(L) <=>
                  n \in L /\ \A m \in L : Casefold(m) = Casefold(n) => Rank(n) <= Rank(m)
           /\ \A m, n \in First(L) : Casefold(m) = Casefold(n) => m = n
           /\ \A n \in L : \E m \in First(L) : Casefold(m) = Casefold(n)
<1>1. \A n \in L : /\ n \in Label /\ Rank(n) \in Nat /\ Casefold(n) \in Nat
                   /\ Rank(n) = Casefold(n) \/ Rank(n) = Casefold(n) + 2
  BY Spellings
<1>2. \A n : n \in First(L) <=>
          n \in L /\ \A m \in L : Casefold(m) = Casefold(n) => Rank(n) <= Rank(m)
  <2>1. \A m, n \in L : Casefold(m) = Casefold(n) =>
            (ByCasefold(m, n) <=> ~(Rank(n) <= Rank(m)))
    BY <1>1, Spellings
  <2>2. QED BY <2>1 DEF First
<1>3. \A m, n \in First(L) : Casefold(m) = Casefold(n) => m = n
  <2>1. \A m, n \in First(L) : Casefold(m) = Casefold(n) => Rank(m) = Rank(n)
    BY <1>1, <1>2
  <2>2. QED BY <1>1, <1>2, <2>1, Spellings
<1>4. ASSUME NEW n \in L PROVE \E m \in First(L) : Casefold(m) = Casefold(n)
  <2>1. CASE n \in First(L)
    BY <2>1
  <2>2. CASE n \notin First(L)
    <3>1. PICK m \in L : Casefold(m) = Casefold(n) /\ ~(Rank(n) <= Rank(m))
      BY <1>2, <2>2
    <3>2. Rank(m) = Casefold(m)
      BY <1>1, <3>1
    <3>3. m \in First(L)
      BY <1>1, <1>2, <3>2
    <3>4. QED BY <3>1, <3>3
  <2>3. QED BY <2>1, <2>2
<1>5. QED BY <1>2, <1>3, <1>4

\* The report has the first spelling of each, and in order.
LEMMA ReportIsSorted ==
    ASSUME NEW L, L \subseteq Label
    PROVE  /\ \A i, j \in DOMAIN Report(L) :
                  i < j => Casefold(Report(L)[i]) < Casefold(Report(L)[j])
           /\ {Report(L)[i] : i \in DOMAIN Report(L)} = First(L)
<1> DEFINE F == First(L)
           r == Report(L)
<1>1. F \subseteq Label /\ \A m, n \in F : Casefold(m) = Casefold(n) => m = n
  BY OfEachTheFirst
<1>2. r = [k \in 1..Cardinality(F) |->
               CHOOSE n \in F : Cardinality(Before(L, n)) = k - 1]
  BY ReportByRank
<1>3. \A n \in F : Before(L, n) = {m \in F : Casefold(m) < Casefold(n)}
  <2>1. \A m, n \in F : ByCasefold(m, n) <=> Casefold(m) < Casefold(n)
    BY <1>1, Spellings
  <2>2. QED BY <2>1 DEF Before
<1>4. \A n \in F : Casefold(n) \in {1, 2}
  BY <1>1, Spellings
<1> HIDE DEF F, r
<1>5. CASE F = {}
  <2>1. DOMAIN r = {}
    BY <1>2, <1>5, FS_EmptySet
  <2>2. QED BY <1>5, <2>1 DEF F, r
<1>6. ASSUME NEW x \in F, F = {x}
      PROVE  /\ \A i, j \in DOMAIN r : i < j => Casefold(r[i]) < Casefold(r[j])
             /\ {r[i] : i \in DOMAIN r} = F
  <2>1. Cardinality(F) = 1
    BY <1>6, FS_Singleton
  <2>2. Before(L, x) = {}
    BY <1>3, <1>4, <1>6
  <2>3. Cardinality(Before(L, x)) = 1 - 1
    BY <2>2, FS_EmptySet
  <2>4. (CHOOSE n \in F : Cardinality(Before(L, n)) = 1 - 1) = x
    BY <1>6, <2>3
  <2>5. DOMAIN r = {1} /\ r[1] = x
    BY <1>2, <2>1, <2>4
  <2>6. QED BY <1>6, <2>5
<1>7. ASSUME NEW x \in F, NEW y \in F, F = {x, y}, Casefold(x) = 1, Casefold(y) = 2
      PROVE  /\ \A i, j \in DOMAIN r : i < j => Casefold(r[i]) < Casefold(r[j])
             /\ {r[i] : i \in DOMAIN r} = F
  <2>1. Cardinality(F) = 2
    <3>1. x # y
      BY <1>7
    <3>2. IsFiniteSet({x}) /\ Cardinality({x}) = 1
      BY FS_Singleton
    <3>3. F = {x} \cup {y} /\ y \notin {x}
      BY <1>7, <3>1
    <3>4. Cardinality({x} \cup {y}) = Cardinality({x}) + 1
      BY <3>2, <3>3, FS_AddElement
    <3>5. QED BY <3>2, <3>3, <3>4
  <2>2. Before(L, x) = {} /\ Before(L, y) = {x}
    BY <1>3, <1>7
  <2>3. Cardinality(Before(L, x)) = 0 /\ Cardinality(Before(L, y)) = 1
    BY <2>2, FS_EmptySet, FS_Singleton
  <2>4. /\ (CHOOSE n \in F : Cardinality(Before(L, n)) = 1 - 1) = x
        /\ (CHOOSE n \in F : Cardinality(Before(L, n)) = 2 - 1) = y
    BY <1>7, <2>3
  <2>5. DOMAIN r = {1, 2} /\ r[1] = x /\ r[2] = y
    BY <1>2, <2>1, <2>4
  <2>6. QED BY <1>7, <2>5
<1>8. \/ F = {}
      \/ \E x \in F : F = {x}
      \/ \E x, y \in F : F = {x, y} /\ Casefold(x) = 1 /\ Casefold(y) = 2
  BY <1>1, <1>4
<1>9. QED BY <1>5, <1>6, <1>7, <1>8 DEF F, r

-------------------------------------------------------------------------------
(* What follows *)

\* Every variable keeps its type, and only proper labels are collected.
THEOREM CollectorsTypeCorrect == Spec => []TypeOK
<1>1. CollectInv => TypeOK
  BY DEF CollectInv, DesktopInv, LookInv, TypeOK, Open
<1>2. QED BY <1>1, Inductive, PTL

\* Whichever way the query of the name ends, with a name, without one or with an exception,
\* the handle of the process that was asked is closed before the collection is over, and
\* none is open where anything else may be raised (_read_application_name, finally).
THEOREM HandlesAreClosed == Spec => []ProcessHandlesAreClosed
<1>1. CollectInv => ProcessHandlesAreClosed
  BY DEF CollectInv, LookInv, ProcessHandlesAreClosed
<1>2. QED BY <1>1, Inductive, PTL

\* However the desktop changes between the calls, the report on a foreground window that
\* itself stays as it is has its whole title, and no application but its own
\* (_collect_windows_foreground_window).
THEOREM ForegroundIsWhole == Spec => []ForegroundIsReportedWhole
<1>1. ASSUME CollectInv PROVE ForegroundIsReportedWhole
  BY <1>1 DEF CollectInv, FrontInv, ForegroundIsReportedWhole, Titled
<1>2. CollectInv => ForegroundIsReportedWhole
  BY <1>1
<1>3. QED BY <1>2, Inductive, PTL

\* A window that stays as it is, and may be read, is in the report, whatever disappears,
\* is reused or may not be read beside it (_collect_application_names).
THEOREM SteadyAreListed == Spec => []SteadyWindowsAreListed
<1>1. ASSUME CollectInv, Listed, NEW h \in steady, window[h].shows,
             app[window[h].pid] \notin Secured,
             NEW label \in LabelsOf({app[window[h].pid]})
      PROVE  \E i \in DOMAIN look.outcome.applications :
                 Casefold(look.outcome.applications[i]) = Casefold(label)
  <2>1. label = LabelOf(h) /\ LabelOf(h) # None /\ h \in Hwnd
    BY <1>1 DEF LabelsOf, LabelOf, CollectInv, DesktopInv
  <2>2. label \in look.names
    BY <1>1, <2>1 DEF CollectInv, SteadyInv, Listable, Listed
  <2>3. look.outcome.applications = Report(look.names) /\ look.names \subseteq Label
    BY <1>1 DEF CollectInv, LookInv, Listed
  <2>4. PICK m \in First(look.names) : Casefold(m) = Casefold(label)
    BY <2>2, <2>3, OfEachTheFirst
  <2>5. PICK i \in DOMAIN Report(look.names) : Report(look.names)[i] = m
    BY <2>3, ReportIsSorted
  <2>6. QED BY <2>3, <2>4, <2>5
<1>2. CollectInv => SteadyWindowsAreListed
  BY <1>1 DEF SteadyWindowsAreListed
<1>3. QED BY <1>2, Inductive, PTL

\* The report is sorted and has each application once, under the smallest spelling found,
\* in whatever order the windows are enumerated (_collect_application_names).
THEOREM ReportsAreCanonical == Spec => []ReportIsCanonical
<1>1. ASSUME CollectInv, Listed PROVE ReportIsCanonical
  <2> DEFINE r == look.outcome.applications
             L == look.names
  <2>1. r = Report(L) /\ L \subseteq Label
    BY <1>1 DEF CollectInv, LookInv, Listed
  <2>2. /\ \A i, j \in DOMAIN r : i < j => Casefold(r[i]) < Casefold(r[j])
        /\ {r[i] : i \in DOMAIN r} = First(L)
    BY <2>1, ReportIsSorted
  <2>3. /\ \A n : n \in First(L) <=>
               n \in L /\ \A m \in L : Casefold(m) = Casefold(n) => Rank(n) <= Rank(m)
        /\ \A n \in L : \E m \in First(L) : Casefold(m) = Casefold(n)
    BY <2>1, OfEachTheFirst
  <2> HIDE DEF r, L
  <2>4. {Casefold(r[i]) : i \in DOMAIN r} = {Casefold(n) : n \in L}
    BY <2>2, <2>3
  <2>5. \A i \in DOMAIN r : \A n \in L :
            r[i] \in L /\ (Casefold(n) = Casefold(r[i]) => Rank(r[i]) <= Rank(n))
    BY <2>2, <2>3
  <2>6. QED BY <2>2, <2>4, <2>5 DEF ReportIsCanonical, r, L
<1>2. CollectInv => ReportIsCanonical
  BY <1>1 DEF ReportIsCanonical
<1>3. QED BY <1>2, Inductive, PTL

\* As long as no handle and no process ID is given out twice while Core looks, an
\* application is named only if it had an application window in that time: looking at the
\* window and its owner once more after reading the name is enough
\* (_collect_application_names).
THEOREM NamesAreOfWindows ==
    ASSUME MaxReuse <= 1
    PROVE  Spec => []NamesHadAWindow
<1>1. ReuseInv => NamesHadAWindow
  BY DEF ReuseInv, NamesHadAWindow
<1>2. QED BY <1>1, ReuseInductive, PTL

===============================================================================
