SPECIFICATION Spec
CONSTANTS
    editor = editor
    Editor = Editor
    Shell = Shell
    vault = vault
    App = {editor, Editor, Shell, vault}
    Hwnd = {h1, h2}
    Pid = {q1, q2}
    Texts = {"blank", "ab"}
    MaxReuse = 1
    None = None
    ProcessName <- MCName
    Secured = {vault}
CHECK_DEADLOCK FALSE
SYMMETRY Numbers
INVARIANTS
    TypeOK
    NamesHadAWindow
    SteadyWindowsAreListed
    ReportIsCanonical
    ForegroundIsReportedWhole
    ProcessHandlesAreClosed
