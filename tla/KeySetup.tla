------------------------------ MODULE KeySetup ------------------------------
(***************************************************************************)
(* The one-time page that saves the OpenAI key (app.py): every submission  *)
(* is a thread that checks the link against the marker of a used one, asks *)
(* OpenAI for the key, writes it to a temporary file, renames that to the  *)
(* key file and writes the marker.  The temporary file has one name, so    *)
(* that submissions that overlap meet in it: what a handle writes goes to  *)
(* the file that it has opened, whatever its name is by then.              *)
(* A key is named by its submission; a rejected key writes nothing.        *)
(***************************************************************************)
EXTENDS Naturals

CONSTANTS
  Submissions,
  NoKey, Mixed,   \* what an empty file holds, and what two writers may leave
  MaxKeyCrashes   \* bound: crashes of the service

ASSUME KeySetupAssumption ==
  /\ NoKey \notin Submissions /\ Mixed \notin Submissions /\ NoKey # Mixed
  /\ "absent" \notin Submissions
  /\ MaxKeyCrashes \in Nat

Nodes == Submissions \cup {"absent"}   \* a file is named by who created it

VARIABLES
  content,      \* of every file
  temp, key,    \* the files that have the names of the temporary and of the key file
  used,         \* the marker file: "absent", "empty" or "used"
  step,         \* where each submission is
  handle,       \* the file that it has opened
  met,          \* history: two submissions were past the check of the link at once
  saved,        \* history: submissions that renamed their file
  cut,          \* history: submissions that a crash, or a missing file, ended
  keyCrashes

keyVars == <<content, temp, key, used, step, handle, met, saved, cut, keyCrashes>>

Steps == {"new", "verify", "open", "write", "rename", "mark", "marking", "done", "failed"}
Active == {s \in Submissions : step[s] \notin {"new", "done", "failed"}}

\* The types; a submission that writes has a file to write to, whatever its name
\* is by then.
KeyTypeOK ==
  /\ content \in [Submissions -> Submissions \cup {NoKey, Mixed}]
  /\ temp \in Nodes /\ key \in Nodes
  /\ used \in {"absent", "empty", "used"}
  /\ step \in [Submissions -> Steps] /\ handle \in [Submissions -> Nodes]
  /\ \A s \in Submissions : step[s] \in {"write", "rename"} => handle[s] # "absent"
  /\ met \in BOOLEAN /\ saved \subseteq Submissions /\ cut \subseteq Submissions
  /\ keyCrashes \in Nat

KeyInit ==
  /\ content = [s \in Submissions |-> NoKey]
  /\ temp = "absent" /\ key = "absent" /\ used = "absent"
  /\ step = [s \in Submissions |-> "new"] /\ handle = [s \in Submissions |-> "absent"]
  /\ met = FALSE /\ saved = {} /\ cut = {} /\ keyCrashes = 0

GoTo(s, at) == step' = [step EXCEPT ![s] = at]

\* Mutant of Authorize: the marker is not compared.
AuthorizeAlways(s) ==
  /\ step[s] = "new" /\ GoTo(s, "verify")
  /\ met' = (met \/ Active # {})
  /\ UNCHANGED <<content, temp, key, used, handle, saved, cut, keyCrashes>>

\* key_setup_authorized; a marker that is missing or empty has not been used.
Authorize(s) ==
  /\ step[s] = "new" /\ used # "used" /\ GoTo(s, "verify")
  /\ met' = (met \/ Active # {})
  /\ UNCHANGED <<content, temp, key, used, handle, saved, cut, keyCrashes>>

\* Mutant of Verify: the link is spent as soon as the key is known to be good.
VerifyMarking(s) ==
  /\ step[s] = "verify" /\ GoTo(s, "open")
  /\ used' = "used"
  /\ UNCHANGED <<content, temp, key, handle, met, saved, cut, keyCrashes>>

\* OpenAI accepts the key, or does not, or cannot be asked.
Verify(s) ==
  /\ step[s] = "verify" /\ GoTo(s, "open")
  /\ UNCHANGED <<content, temp, key, used, handle, met, saved, cut, keyCrashes>>

Rejected(s) ==
  /\ step[s] = "verify" /\ GoTo(s, "failed")
  /\ UNCHANGED <<content, temp, key, used, handle, met, saved, cut, keyCrashes>>

\* open(temp, "w") truncates a temporary file that is there, or creates one.
OpenTemp(s) ==
  LET file == IF temp = "absent" THEN s ELSE temp IN
  /\ step[s] = "open" /\ GoTo(s, "write")
  /\ temp' = file /\ handle' = [handle EXCEPT ![s] = file]
  /\ content' = [content EXCEPT ![file] = NoKey]
  /\ UNCHANGED <<key, used, met, saved, cut, keyCrashes>>

\* The buffered write, from the start of the file: a shorter key leaves the tail of
\* a longer one that another handle wrote there.
WriteTemp(s) ==
  LET file == handle[s] IN
  /\ step[s] = "write" /\ GoTo(s, "rename")
  /\ \E left \in IF content[file] = NoKey THEN {s} ELSE {s, Mixed} :
       content' = [content EXCEPT ![file] = left]
  /\ UNCHANGED <<temp, key, used, handle, met, saved, cut, keyCrashes>>

\* os.replace raises if another submission has renamed the file already.
Rename(s) ==
  /\ step[s] = "rename"
  /\ IF temp = "absent"
     THEN GoTo(s, "failed") /\ cut' = cut \cup {s} /\ UNCHANGED <<temp, key, saved>>
     ELSE /\ GoTo(s, "mark") /\ key' = temp /\ temp' = "absent"
          /\ saved' = saved \cup {s} /\ UNCHANGED cut
  /\ UNCHANGED <<content, used, handle, met, keyCrashes>>

\* open(used file, "w") truncates it; the write follows.
OpenMarker(s) ==
  /\ step[s] = "mark" /\ GoTo(s, "marking")
  /\ used' = "empty"
  /\ UNCHANGED <<content, temp, key, handle, met, saved, cut, keyCrashes>>

WriteMarker(s) ==
  /\ step[s] = "marking" /\ GoTo(s, "done")
  /\ used' = "used"
  /\ UNCHANGED <<content, temp, key, handle, met, saved, cut, keyCrashes>>

\* The files stay, the submissions at work do not.
CrashOfService ==
  /\ keyCrashes < MaxKeyCrashes /\ keyCrashes' = keyCrashes + 1
  /\ step' = [s \in Submissions |-> IF s \in Active THEN "failed" ELSE step[s]]
  /\ cut' = cut \cup Active
  /\ UNCHANGED <<content, temp, key, used, handle, met, saved>>

KeyNext ==
  \/ \E s \in Submissions :
       \/ Authorize(s) \/ Verify(s) \/ Rejected(s) \/ OpenTemp(s) \/ WriteTemp(s)
       \/ Rename(s) \/ OpenMarker(s) \/ WriteMarker(s)
  \/ CrashOfService

KeySpec == KeyInit /\ [][KeyNext]_keyVars

-----------------------------------------------------------------------------
(* Properties                                                              *)

\* A link that is used up has left a key: the key file holds one that OpenAI
\* accepted, wherever a crash fell, unless two submissions overlapped.
UsedLinkHasKey ==
  used = "used" /\ ~met => key # "absent" /\ content[key] \in Submissions

\* "This setup link works once": a second submission that replaces the key did so
\* beside the first, or after one that was cut off before it could mark the link.
LinkWorksOnce ==
  \A s, t \in saved : s = t \/ met \/ s \in cut \/ t \in cut
=============================================================================
