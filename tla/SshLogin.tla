------------------------------- MODULE SshLogin -------------------------------
(***************************************************************************)
(* A command for an SSH profile: the broker seals the profile when the     *)
(* operation is prepared, and loads it again and compares it with the seal *)
(* when the approved operation runs (execution-broker/src/broker/ssh.py,   *)
(* _prepare and _execute in server.py).  A profile is a directory of       *)
(* files, read one after the other with no lock, while the operator's      *)
(* commands replace, restore and remove directories (manage.sh, external). *)
(*                                                                         *)
(* The content of a file is the number of the version of the profile it    *)
(* was written for; a profile is written once and never changed in place.  *)
(* It is a profile with a password: the key of another, like known_hosts,  *)
(* is read once more by ssh itself, from its path.                         *)
(***************************************************************************)
EXTENDS Naturals

CONSTANTS
    SshOperation,  \* the operations prepared for the profile
    MaxProfile,    \* bound: versions of the profile
    NoProfile      \* no directory, no backup, no seal

File == {"meta", "hosts", "secret"}

ASSUME NoProfileAssumption == NoProfile \notin [File -> Nat]

VARIABLES
    profile,  \* the directory of this name, or NoProfile
    backup,   \* the directory kept during a change of password, or NoProfile
    change,   \* how far that change has come
    written,  \* how many versions were written
    task,     \* operation -> [step, read]: the files read so far by its call
    seal,     \* operation -> what was read for its seal, or NoProfile
    login,    \* operation -> what it logs in with, or NoProfile
    left      \* operations whose password file is on the broker's disk

directoryVars == <<profile, backup, change, written>>
brokerVars == <<task, seal, login, left>>
sshVars == <<directoryVars, brokerVars>>

Nought == [f \in File |-> 0]  \* 0: no such file
NothingRead == [step |-> "idle", read |-> Nought]

SshInit ==
    /\ profile = [f \in File |-> 1] /\ written = 1
    /\ backup = NoProfile /\ change = "none"
    /\ task = [o \in SshOperation |-> NothingRead]
    /\ seal = [o \in SshOperation |-> NoProfile]
    /\ login = [o \in SshOperation |-> NoProfile]
    /\ left = {}

-----------------------------------------------------------------------------
(* The operator (manage.sh) *)

\* A stage directory is complete when mv gives it the profile's name.
AddProfile ==
    /\ profile = NoProfile /\ change = "none" /\ written < MaxProfile
    /\ written' = written + 1
    /\ profile' = [f \in File |-> written + 1]
    /\ UNCHANGED <<backup, change, brokerVars>>

\* The broker is stopped before the directories are exchanged, but it need not
\* have been: an error of compose stop is passed over.
SetPasswordAside ==
    /\ profile # NoProfile /\ change = "none" /\ written < MaxProfile
    /\ change' = "aside" /\ backup' = profile /\ profile' = NoProfile
    /\ UNCHANGED <<written, brokerVars>>

\* The copy differs in its password and in the revision in profile.json.
SetPassword ==
    /\ change = "aside"
    /\ change' = "placed" /\ written' = written + 1
    /\ profile' = [backup EXCEPT !.meta = written + 1, !.secret = written + 1]
    /\ UNCHANGED <<backup, brokerVars>>

PasswordVerified ==
    /\ change = "placed"
    /\ change' = "none" /\ backup' = NoProfile
    /\ UNCHANGED <<profile, written, brokerVars>>

\* rm -rf takes the files one by one, then the directory.
RemoveFile(f) ==
    /\ profile # NoProfile /\ profile[f] # 0
    /\ profile' = [profile EXCEPT ![f] = 0]
    /\ UNCHANGED <<backup, change, written, brokerVars>>

RemoveDirectory ==
    /\ profile = Nought
    /\ profile' = NoProfile
    /\ UNCHANGED <<backup, change, written, brokerVars>>

\* The probe failed and the new directory is gone.
RestoreBackup ==
    /\ change = "placed" /\ profile = NoProfile
    /\ change' = "none" /\ profile' = backup /\ backup' = NoProfile
    /\ UNCHANGED <<written, brokerVars>>

-----------------------------------------------------------------------------
(* The broker *)

HasFile(f) == profile # NoProfile /\ profile[f] # 0

\* load_profile reads profile.json, known_hosts and the password in this order.
NextFile == [idle |-> "meta", sealed |-> "meta", meta |-> "hosts", hosts |-> "secret"]

\* A call starts to load, for the seal (prepare) or to run (execute), or goes on.
Load(o, f) ==
    /\ task[o].step \in DOMAIN NextFile /\ f = NextFile[task[o].step]
    /\ HasFile(f)
    /\ task' = [task EXCEPT ![o] = [step |-> f, read |-> [@.read EXCEPT ![f] = profile[f]]]]
    /\ UNCHANGED <<directoryVars, seal, login, left>>

\* A file that is missing ends the call; the capability, if claimed, is spent.
LoadFails(o) ==
    /\ task[o].step \in DOMAIN NextFile /\ ~HasFile(NextFile[task[o].step])
    /\ task' = [task EXCEPT ![o] = [step |-> "failed", read |-> Nought]]
    /\ UNCHANGED <<directoryVars, seal, login, left>>

Seal(o) ==
    /\ task[o].step = "secret" /\ seal[o] = NoProfile
    /\ seal' = [seal EXCEPT ![o] = task[o].read]
    /\ task' = [task EXCEPT ![o] = [step |-> "sealed", read |-> Nought]]
    /\ UNCHANGED <<directoryVars, login, left>>

\* Mutant: the credential's tag is not compared.
AccountMatches(read, sealed) == \A f \in {"meta", "hosts"} : read[f] = sealed[f]
\* The tag is keyed with the revision in profile.json and the password.
profile_matches(read, sealed) == read = sealed

\* build_argv and the askpass helper use what was loaded.
Credentials(read) == [meta |-> read.meta, secret |-> read.secret]

RunSsh(o) ==
    /\ task[o].step = "secret" /\ seal[o] # NoProfile
    /\ IF profile_matches(task[o].read, seal[o])
       THEN /\ login' = [login EXCEPT ![o] = Credentials(task[o].read)]
            /\ left' = left \cup {o}
            /\ task' = [task EXCEPT ![o].step = "running"]
       ELSE /\ task' = [task EXCEPT ![o] = [step |-> "failed", read |-> Nought]]
            /\ UNCHANGED <<login, left>>
    /\ UNCHANGED <<directoryVars, seal>>

\* ssh returns, times out, or does not start: the file is unlinked in any case.
Cleared(o, how) == left \ {o}

SshEnds(o, how) ==
    /\ task[o].step = "running"
    /\ left' = Cleared(o, how)
    /\ task' = [task EXCEPT ![o] = [step |-> "ended", read |-> Nought]]
    /\ UNCHANGED <<directoryVars, seal, login>>

SshNext ==
    \/ AddProfile
    \/ SetPasswordAside
    \/ SetPassword
    \/ PasswordVerified
    \/ \E f \in File : RemoveFile(f)
    \/ RemoveDirectory
    \/ RestoreBackup
    \/ \E o \in SshOperation :
          \/ \E f \in File : Load(o, f)
          \/ LoadFails(o)
          \/ Seal(o)
          \/ RunSsh(o)
          \/ \E how \in {"returned", "timed out", "not started"} : SshEnds(o, how)

SshSpec == SshInit /\ [][SshNext]_sshVars

-----------------------------------------------------------------------------
(* A login uses the account and the password of the profile as they were   *)
(* sealed, and the two belong to each other, however the directory was     *)
(* replaced, restored or removed while it was read.                        *)
LoginIsOfOneProfile ==
    \A o \in SshOperation :
        login[o] # NoProfile =>
            login[o] = Credentials(seal[o]) /\ login[o].meta = login[o].secret

(* A password is on the broker's disk only while the ssh that needs it     *)
(* runs.                                                                   *)
PasswordsAreNotLeft == \A o \in left : task[o].step = "running"

(* What a login is made with, and what of it stays on disk.                *)
SshInv == LoginIsOfOneProfile /\ PasswordsAreNotLeft
=============================================================================
