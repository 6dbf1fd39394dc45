-------------------------------- MODULE Desktop --------------------------------
(***************************************************************************)
(* The Windows desktop as the context collectors see it through user32,    *)
(* kernel32 and psutil, none of which is under src/: applications run      *)
(* under process IDs and own windows under handles, and both numbers are   *)
(* given out again once they are free.  Nothing on it waits for Core.      *)
(***************************************************************************)
EXTENDS Naturals

CONSTANTS App,          \* applications
          Hwnd,         \* window handles
          Pid,          \* process IDs
          Texts,        \* the texts a window may have for a title
          MaxReuse,     \* bound: how often a handle or an ID is given out while Core looks
          None          \* no window, no process, no name

ASSUME DesktopConstantsOK ==
    /\ Texts \subseteq {"", "blank", "a", "ab"}
    /\ MaxReuse \in Nat
    /\ None \notin App \cup Hwnd \cup Pid
    /\ Hwnd \cap Pid = {}

VARIABLES
    app,        \* the application that runs under each process ID
    window,     \* the window of each handle: its process, whether it shows, its text
    foreground, \* the handle of the foreground window
    given,      \* how often each handle and ID was given out since Core began to look
    steady,     \* the handles whose windows have not changed since then
    showed      \* the applications that have had an application window since then

desktopVars == <<app, window, foreground, given, steady, showed>>

\* Nothing, nothing but a blank, and titles of one and two letters.
Width(text) == CASE text = "" -> 0 [] text = "ab" -> 2 [] OTHER -> 1

Open(h) == window[h] # None
Running(p) == app[p] # None
Windows == [pid : Pid, shows : BOOLEAN, text : Texts]

ASSUME NoneIsNoWindow == None \notin Windows

\* The applications that have an application window.
Showing(a, w) == {a[w[h].pid] : h \in {k \in Hwnd : w[k] # None /\ w[k].shows}}

DesktopInit ==
    /\ app \in [Pid -> App \cup {None}]
    /\ window \in [Hwnd -> Windows \cup {None}]
    /\ \A h \in Hwnd : Open(h) => Running(window[h].pid)
    /\ foreground \in {h \in Hwnd : Open(h)} \cup {None}
    /\ given = [n \in Hwnd \cup Pid |-> 0]
    /\ steady = {h \in Hwnd : Open(h)}
    /\ showed = Showing(app, window)

\* The window of h becomes w.
Rewindow(h, w) ==
    /\ window' = [window EXCEPT ![h] = w]
    /\ steady' = steady \ {h}
    /\ showed' = showed \cup Showing(app, window')
    /\ UNCHANGED app

OpenWindow(h, w) ==
    /\ ~Open(h) /\ Running(w.pid) /\ given[h] < MaxReuse
    /\ Rewindow(h, w)
    /\ given' = [given EXCEPT ![h] = @ + 1]
    /\ UNCHANGED foreground

CloseWindow(h) ==
    /\ Open(h)
    /\ Rewindow(h, None)
    /\ foreground' = IF foreground = h THEN None ELSE foreground
    /\ UNCHANGED given

ShowOrHide(h) ==
    /\ Open(h)
    /\ Rewindow(h, [window[h] EXCEPT !.shows = ~@])
    /\ UNCHANGED <<foreground, given>>

Retitle(h, text) ==
    /\ Open(h) /\ text # window[h].text
    /\ Rewindow(h, [window[h] EXCEPT !.text = text])
    /\ UNCHANGED <<foreground, given>>

SwitchTo(h) ==
    /\ Open(h)
    /\ foreground' = h
    /\ UNCHANGED <<app, window, given, steady, showed>>

Launch(p, a) ==
    /\ ~Running(p) /\ given[p] < MaxReuse
    /\ app' = [app EXCEPT ![p] = a]
    /\ given' = [given EXCEPT ![p] = @ + 1]
    /\ UNCHANGED <<window, foreground, steady, showed>>

\* An application takes its windows with it.
Exit(p) ==
    LET gone == {h \in Hwnd : Open(h) /\ window[h].pid = p} IN
    /\ Running(p)
    /\ app' = [app EXCEPT ![p] = None]
    /\ window' = [h \in Hwnd |-> IF h \in gone THEN None ELSE window[h]]
    /\ foreground' = IF foreground \in gone THEN None ELSE foreground
    /\ steady' = steady \ gone
    /\ UNCHANGED <<given, showed>>

===============================================================================
