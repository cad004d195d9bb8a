\* Save, while another tab edits the note.
CONSTANTS
    Users = {u1}
    Notes = {n1}
    Nothing = Nothing
    Tasks = {t1}
    MaxChanges = 1
    MaxClicks = 2
SPECIFICATION Spec
PROPERTY SaveReplacesWhatWasShown
CHECK_DEADLOCK FALSE
