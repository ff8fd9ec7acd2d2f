----------------------------- MODULE OtaUpdate -----------------------------
(***************************************************************************)
(* OtaClient of crates/commander: check for a version, download it, verify *)
(* it, back the installed binary up, write the new one beside it, sync it  *)
(* and rename it over the old one. Any step may fail, and the power may go *)
(* between any two: what was written and not synced is then torn.          *)
(***************************************************************************)
EXTENDS Integers, Sequences

CONSTANTS Versions,   \* version strings, as sequences of characters
          MaxCalls    \* bounds the calls of check_and_update

VARIABLES doing,      \* where the call is
          current,    \* config.current_version, that of the running program
          offered,    \* the UpdateInfo of this call
          binary,     \* binary_path
          backup,     \* backup_path
          temp,       \* binary_path with the extension "new"
          calls       \* calls made

otaVars == <<doing, current, offered, binary, backup, temp, calls>>

\* A file: what it holds, whether that is on the medium, and may be run.
None == [holds |-> <<>>, synced |-> TRUE, runs |-> FALSE]
Torn(file) == [file EXCEPT !.holds = <<>>]
IsWhole(file) == file.holds \in Versions
Exists(file) == file # None

OtaInit == \E v \in Versions :
  /\ current = v
  /\ binary \in {None, [holds |-> v, synced |-> TRUE, runs |-> TRUE]}
  /\ backup = None /\ temp = None
  /\ doing = "idle" /\ offered = v /\ calls = 0

-----------------------------------------------------------------------------
\* Versions are compared as strings: "10" comes before "9".
StringAfter(a, b) ==
  \E n \in 1 .. Len(a) :
    /\ \A i \in 1 .. n - 1 : i <= Len(b) /\ a[i] = b[i]
    /\ n > Len(b) \/ a[n] > b[n]

\* The server may offer anything; not after the current version: no update.
CheckForUpdate(v) == /\ doing = "idle" /\ calls < MaxCalls
                     /\ calls' = calls + 1
                     /\ IF StringAfter(v, current)
                        THEN doing' = "download" /\ offered' = v
                        ELSE UNCHANGED <<doing, offered>>
                     /\ UNCHANGED <<current, binary, backup, temp>>

GiveUp == doing' = "idle" /\ UNCHANGED <<current, offered, calls>>

\* No answer, or a body that is not the one promised: the checksum, taken to
\* tell every damaged body, refuses it. Nothing has been touched.
DownloadFails == /\ doing = "download" /\ GiveUp
                 /\ UNCHANGED <<binary, backup, temp>>

Step(from, to) == doing = from /\ doing' = to /\ UNCHANGED <<current, offered, calls>>

Verify == /\ Step("download", IF Exists(binary) THEN "backup" ELSE "create")
          /\ UNCHANGED <<binary, backup, temp>>

\* fs::copy empties its target first and takes the permissions along.
CopyBackup == /\ Step("backup", "copy")
              /\ backup' = [Torn(binary) EXCEPT !.synced = FALSE]
              /\ UNCHANGED <<binary, temp>>
BackupDone == /\ Step("copy", "create")
              /\ backup' = [binary EXCEPT !.synced = FALSE]
              /\ UNCHANGED <<binary, temp>>
BackupFails == /\ doing \in {"backup", "copy"} /\ GiveUp
               /\ UNCHANGED <<binary, backup, temp>>

\* File::create, which may find one left over from an earlier call.
CreateTemp == /\ Step("create", "write")
              /\ temp' = [None EXCEPT !.synced = FALSE, !.runs = temp.runs]
              /\ UNCHANGED <<binary, backup>>
WriteTemp == /\ Step("write", "sync")
             /\ temp' = [temp EXCEPT !.holds = offered]
             /\ UNCHANGED <<binary, backup>>

\* Mutant: the file is not synced.
SyncTempForgotten == Step("sync", "chmod") /\ UNCHANGED <<binary, backup, temp>>

SyncTemp == /\ Step("sync", "chmod")
            /\ temp' = [temp EXCEPT !.synced = TRUE]
            /\ UNCHANGED <<binary, backup>>
SetPermissions == /\ Step("chmod", "rename")
                  /\ temp' = [temp EXCEPT !.runs = TRUE]
                  /\ UNCHANGED <<binary, backup>>
TempFails == /\ doing \in {"create", "write", "sync", "chmod", "rename"} /\ GiveUp
             /\ UNCHANGED <<binary, backup, temp>>

\* The new binary takes the place of the old one; the client goes on with
\* the version it was started with.
Rename == /\ Step("rename", "idle")
          /\ binary' = temp /\ temp' = None
          /\ UNCHANGED backup

\* The program starts again, from the binary that is there. After a loss of
\* power a file that was not synced is torn. The mode is set after the sync
\* and may be lost, but not when the rename, made later, is kept: the file
\* system is taken to write both to its medium in their order, as a journal
\* does. (A rename lost leaves what a loss before the rename leaves.)
AfterPowerLoss(file) == IF file.synced THEN file ELSE [Torn(file) EXCEPT !.synced = TRUE]

StartAgain(files) ==
  /\ doing' = "idle"
  /\ binary' = files[1] /\ backup' = files[2] /\ temp' = files[3]
  /\ current' = IF IsWhole(binary') THEN binary'.holds ELSE current
  /\ UNCHANGED <<offered, calls>>
ProcessRestarts == StartAgain(<<binary, backup, temp>>)
PowerFails == \E mode \in {temp.runs, FALSE} :
  StartAgain(<<AfterPowerLoss(binary), AfterPowerLoss(backup),
               [AfterPowerLoss(temp) EXCEPT !.runs = mode]>>)

OtaNext == \/ \E v \in Versions : CheckForUpdate(v)
           \/ DownloadFails \/ Verify
           \/ CopyBackup \/ BackupDone \/ BackupFails
           \/ CreateTemp \/ WriteTemp \/ SyncTemp \/ SetPermissions \/ TempFails
           \/ Rename
           \/ ProcessRestarts \/ PowerFails

OtaSpec == OtaInit /\ [][OtaNext]_otaVars

-----------------------------------------------------------------------------
\* What is installed can be started at every instant, whatever failed and
\* whenever the power went; and until the rename the backup, if it was made,
\* is a copy of what is about to be replaced.
BinaryIsWhole ==
  /\ Exists(binary) => IsWhole(binary) /\ binary.runs
  /\ Exists(binary) /\ doing \in {"create", "write", "sync", "chmod", "rename"} =>
       backup.holds = binary.holds /\ backup.runs
=============================================================================
