-------------------------- MODULE BackupReplication --------------------------
(* The encrypted backups of the database: deploy/backup-postgres.sh and       *)
(* deploy/restore-postgres.sh with the scripts they call, backup-crypto.mjs   *)
(* and replicate-backup-s3.mjs.                                               *)
(*                                                                            *)
(* Scripts run on hosts that each have a database and a backup directory and *)
(* that share a bucket.  A file is named after the second its backup began   *)
(* in, so time is a number and a name is one.  What a file holds is whose dump *)
(* it is and how good: whole, cut off, half of a database that is being       *)
(* restored, or damaged.  A script may be interrupted, and then cleans up, or *)
(* killed, and then does not.  An off-site copy is configured.               *)
EXTENDS Integers, Sequences

CONSTANTS
  Scripts,        \* runs of a script at the same time
  Hosts,
  Apart,          \* hosts where only the environment file names OTTO_CONTROL_BACKUP_DIR
  Required,       \* CONTROL_BACKUP_OFFSITE_REQUIRED
  MaxAttempts,    \* CONTROL_BACKUP_S3_MAX_ATTEMPTS
  RetentionDays,  \* CONTROL_BACKUP_RETENTION_DAYS, in units of time
  MaxTime,        \* bound on the time
  MaxFaults,      \* bound on interrupts, kills, damages and lost answers
  MaxRuns,        \* bound on runs
  None

ASSUME BackupAssumption ==
  /\ Apart \subseteq Hosts /\ Required \in BOOLEAN
  /\ {MaxAttempts, RetentionDays} \subseteq Nat \ {0}
  /\ {MaxTime, MaxFaults, MaxRuns} \subseteq Nat

Names == 0..MaxTime

\* What a file holds.
Dumps == [by : Scripts, is : {"whole", "cut", "half", "damaged"}]

ASSUME NoneAssumption == None \notin Names \cup Dumps

VARIABLES
  now,
  host,       \* [Scripts -> Hosts]
  script,     \* [Scripts -> what it is doing]
  lock,       \* the directories .operation.lock that there are
  part,       \* [Hosts -> [Names -> dump]]: *.dump.enc.part
  final,      \* [Hosts -> [Names -> dump]]: *.dump.enc
  checksum,   \* [Hosts -> [Names -> dump]]: the one *.sha256 was made from
  remote,     \* the bucket: [Names \X {"file", "checksum"} -> dump]
  latest,     \* [Hosts -> report]: reports/latest.json
  database,   \* [Hosts -> "serving" or "half" of it]
  harmed,     \* hosts where a file was damaged or a restore gave up half way
  faults, runs

files == <<part, final, checksum>>
vars == <<now, host, script, lock, files, remote, latest, database, harmed, faults, runs>>

Idle == [pc |-> "idle"]
Objects == <<"file", "checksum">>

Init ==
  /\ now = 0 /\ host \in [Scripts -> Hosts]
  /\ script = [s \in Scripts |-> Idle]
  /\ lock = {}
  /\ part = [h \in Hosts |-> [n \in Names |-> None]] /\ final = part /\ checksum = part
  /\ remote = [o \in Names \X {"file", "checksum"} |-> None]
  /\ latest = [h \in Hosts |-> None]
  /\ database = [h \in Hosts |-> "serving"]
  /\ harmed = {} /\ faults = 0 /\ runs = 0

At(s, pc) == script[s].pc = pc
Become(s, r) == script' = [script EXCEPT ![s] = r]
Goto(s, pc) == Become(s, [script[s] EXCEPT !.pc = pc])
In(f, s, value) == [f EXCEPT ![host[s]][script[s].name] = value]
Mine(f, s) == f[host[s]][script[s].name]

\* A backup locks the directory that the environment file names, a restore another one
\* unless the variable is exported, too, or names the default.
BackupLock(h) == <<h, "configured">>
RestoreLock(h) == IF h \in Apart THEN <<h, "default">> ELSE BackupLock(h)

Restoring(s) == script[s].pc \in {"drop", "load"}
LockOf(s) == IF Restoring(s) THEN RestoreLock(host[s]) ELSE BackupLock(host[s])

\* The traps: the lock of a script that ends is removed, and the part of a backup.
CleanUp(s) ==
  /\ part' = IF Restoring(s) THEN part ELSE In(part, s, None)
  /\ lock' = lock \ {LockOf(s)}
Exit(s) == Become(s, Idle) /\ CleanUp(s)

-----------------------------------------------------------------------------
\* backup-postgres.sh

\* What a restore asks of an archive: its checksum matches, and it is authentic.
Checked(h, n) ==
  final[h][n] # None /\ checksum[h][n] = final[h][n] /\ final[h][n].is # "damaged"

\* On its own, or first of all in a restore of n.
Begin(s, n) ==
  /\ At(s, "idle") /\ runs < MaxRuns
  /\ n # None => Checked(host[s], n)
  /\ Become(s, [pc |-> "lock", restore |-> n])
  /\ runs' = runs + 1
  /\ UNCHANGED <<now, host, lock, files, remote, latest, database, harmed, faults>>

Refused(s) == UNCHANGED lock

\* mkdir.  A backup takes longer than the second that its file is named after.
TakeLock(s) ==
  /\ At(s, "lock")
  /\ IF BackupLock(host[s]) \in lock
     THEN Become(s, Idle) /\ Refused(s)
     ELSE /\ final[host[s]][now] = None
          /\ Become(s, [pc |-> "encrypt", restore |-> script[s].restore, name |-> now])
          /\ lock' = lock \cup {BackupLock(host[s])}
  /\ UNCHANGED <<now, host, files, remote, latest, database, harmed, faults, runs>>

Fault ==
  /\ faults < MaxFaults
  /\ faults' = faults + 1

\* pg_dump and backup-crypto.mjs encrypt: what the part holds then.
Encrypt(s, is) ==
  /\ At(s, "encrypt")
  /\ IF Mine(part, s) # None
     THEN Exit(s)
     ELSE /\ part' = In(part, s, [by |-> s, is |-> IF database[host[s]] = "half" THEN "half" ELSE is])
          /\ Become(s, [pc |-> "validate", restore |-> script[s].restore, name |-> script[s].name,
                        dumped |-> is = "whole"])
          /\ UNCHANGED lock
  /\ IF is = "whole" THEN UNCHANGED faults ELSE Fault
  /\ UNCHANGED <<now, host, final, checksum, remote, latest, database, harmed, runs>>

\* Slip: the exit status of pg_dump is not waited for.
Readable(s) == Mine(part, s) # None /\ Mine(part, s).is # "damaged"
Dumped(s) == Readable(s) /\ script[s].dumped

Fails(s) == Exit(s)

\* The status of pg_dump, then backup-crypto.mjs decrypt-run with pg_restore --list.
Validate(s) ==
  /\ At(s, "validate")
  /\ IF Dumped(s) THEN Goto(s, "move") /\ UNCHANGED <<part, lock>> ELSE Fails(s)
  /\ UNCHANGED <<now, host, final, checksum, remote, latest, database, harmed, faults, runs>>

Move(s) ==
  /\ At(s, "move")
  /\ final' = In(final, s, Mine(part, s)) /\ part' = In(part, s, None)
  /\ Goto(s, "checksum")
  /\ UNCHANGED <<now, host, lock, checksum, remote, latest, database, harmed, faults, runs>>

Sum(s) ==
  /\ At(s, "checksum")
  /\ checksum' = In(checksum, s, Mine(final, s))
  /\ Goto(s, "inspect")
  /\ UNCHANGED <<now, host, lock, part, final, remote, latest, database, harmed, faults, runs>>

-----------------------------------------------------------------------------
\* replicate-backup-s3.mjs

\* inspectBackup, before anything that is reported.
Inspect(s) ==
  /\ At(s, "inspect")
  /\ IF Mine(final, s) = Mine(checksum, s)
     THEN Become(s, [pc |-> "put", restore |-> script[s].restore, name |-> script[s].name,
                     backup |-> Mine(final, s), object |-> 1, attempt |-> 1])
          /\ UNCHANGED <<part, lock>>
     ELSE Fails(s)
  /\ UNCHANGED <<now, host, final, checksum, remote, latest, database, harmed, faults, runs>>

Key(s) == <<script[s].name, Objects[script[s].object]>>

Ends(s, offsite) ==
  Become(s, [pc |-> "report", restore |-> script[s].restore, name |-> script[s].name,
             backup |-> script[s].backup, offsite |-> offsite])

\* replicateBackup: both files are sent again, unless the error tells not to.
Again(s, retryable) ==
  IF retryable /\ script[s].attempt < MaxAttempts
  THEN Become(s, [script[s] EXCEPT !.pc = "put", !.object = 1, !.attempt = @ + 1])
  ELSE Ends(s, "failed")

\* The PUT of transferObject: only what was inspected, and only where there is nothing.
Put(s) ==
  /\ At(s, "put")
  /\ IF remote[Key(s)] = None /\ Objects[script[s].object] = "file" /\ Mine(final, s) # script[s].backup
     THEN Again(s, FALSE) /\ UNCHANGED remote
     ELSE /\ remote' = [remote EXCEPT ![Key(s)] = IF @ = None THEN script[s].backup ELSE @]
          /\ Goto(s, "head")
  /\ UNCHANGED <<now, host, lock, files, latest, database, harmed, faults, runs>>

\* No answer comes, to a request that was carried out or was not.
NoAnswer(s) ==
  /\ script[s].pc \in {"put", "head"}
  /\ Fault
  /\ remote' \in {remote} \cup
       IF At(s, "put") /\ remote[Key(s)] = None /\ Mine(final, s) = script[s].backup
       THEN {[remote EXCEPT ![Key(s)] = script[s].backup]} ELSE {}
  /\ Again(s, TRUE)
  /\ UNCHANGED <<now, host, lock, files, latest, database, harmed, runs>>

\* Slip: that there is an object is enough.
Present(s) == remote[Key(s)] # None
Same(s) == remote[Key(s)] = script[s].backup

\* The HEAD of transferObject: the size and the hash that were stored with it.
HeadObject(s) ==
  /\ At(s, "head")
  /\ IF ~Same(s) THEN Again(s, FALSE)
     ELSE IF script[s].object < Len(Objects)
          THEN Become(s, [script[s] EXCEPT !.pc = "put", !.object = @ + 1])
          ELSE Ends(s, "verified")
  /\ UNCHANGED <<now, host, lock, files, remote, latest, database, harmed, faults, runs>>

\* createBackupReport and writeBackupReport, then whether the failure is one of the backup.
Report(s) ==
  /\ At(s, "report")
  /\ latest' = [latest EXCEPT ![host[s]] =
                  [name |-> script[s].name, backup |-> script[s].backup, offsite |-> script[s].offsite]]
  /\ IF script[s].offsite = "failed" /\ Required
     THEN Fails(s)
     ELSE Goto(s, "prune") /\ UNCHANGED <<part, lock>>
  /\ UNCHANGED <<now, host, final, checksum, remote, database, harmed, faults, runs>>

\* Slip: what is as old as the retention goes, too.
OldEnough(n) == now - n >= RetentionDays

\* find -mtime
TooOld(n) == now - n > RetentionDays
Recent(f, h) == [f EXCEPT ![h] = [n \in Names |-> IF TooOld(n) THEN None ELSE f[h][n]]]

\* The last of a backup; a restore goes on.
Prune(s) ==
  /\ At(s, "prune")
  /\ final' = Recent(final, host[s]) /\ checksum' = Recent(checksum, host[s])
  /\ CleanUp(s)
  /\ IF script[s].restore = None THEN Become(s, Idle)
     ELSE Become(s, [pc |-> "relock", restore |-> script[s].restore, name |-> script[s].name])
  /\ UNCHANGED <<now, host, remote, latest, database, harmed, faults, runs>>

-----------------------------------------------------------------------------
\* restore-postgres.sh

Relock(s) ==
  /\ At(s, "relock")
  /\ IF RestoreLock(host[s]) \in lock THEN Become(s, Idle) /\ UNCHANGED lock
     ELSE Goto(s, "drop") /\ lock' = lock \cup {RestoreLock(host[s])}
  /\ UNCHANGED <<now, host, files, remote, latest, database, harmed, faults, runs>>

\* Control is stopped, the database dropped and created.
Drop(s) ==
  /\ At(s, "drop")
  /\ database' = [database EXCEPT ![host[s]] = "half"]
  /\ Goto(s, "load")
  /\ UNCHANGED <<now, host, lock, files, remote, latest, harmed, faults, runs>>

\* pg_restore from the archive, if it is there and authentic.
Load(s) ==
  /\ At(s, "load")
  /\ LET archive == final[host[s]][script[s].restore] IN
     IF archive # None /\ archive.is # "damaged"
     THEN database' = [database EXCEPT ![host[s]] = "serving"] /\ UNCHANGED harmed
     ELSE harmed' = harmed \cup {host[s]} /\ UNCHANGED database
  /\ Exit(s)
  /\ UNCHANGED <<now, host, final, checksum, remote, latest, faults, runs>>

-----------------------------------------------------------------------------
Holds(s) == script[s].pc \notin {"idle", "lock", "relock"}
HalfWay(s) == IF At(s, "load") THEN {host[s]} ELSE {}

\* HUP, INT or TERM
Interrupt(s) ==
  /\ ~At(s, "idle") /\ Fault
  /\ IF Holds(s) THEN Exit(s) ELSE Become(s, Idle) /\ UNCHANGED <<part, lock>>
  /\ harmed' = harmed \cup HalfWay(s)
  /\ UNCHANGED <<now, host, final, checksum, remote, latest, database, runs>>

\* KILL, or the host goes down
Kill(s) ==
  /\ ~At(s, "idle") /\ Fault
  /\ Become(s, Idle)
  /\ harmed' = harmed \cup HalfWay(s)
  /\ UNCHANGED <<now, host, lock, files, remote, latest, database, runs>>

\* Someone removes a lock that was left behind.
RemoveLock(l) ==
  /\ l \in lock /\ ~ \E s \in Scripts : Holds(s) /\ LockOf(s) = l
  /\ lock' = lock \ {l}
  /\ UNCHANGED <<now, host, script, files, remote, latest, database, harmed, faults, runs>>

Damage(h, n) ==
  /\ Fault
  /\ \/ final[h][n] # None /\ final' = [final EXCEPT ![h][n].is = "damaged"] /\ UNCHANGED part
     \/ part[h][n] # None /\ part' = [part EXCEPT ![h][n].is = "damaged"] /\ UNCHANGED final
  /\ harmed' = harmed \cup {h}
  /\ UNCHANGED <<now, host, script, lock, checksum, remote, latest, database, runs>>

\* A script takes less than the days that a backup is kept for.
Tick ==
  /\ now < MaxTime
  /\ \A s \in Scripts : Holds(s) => now - script[s].name < RetentionDays
  /\ now' = now + 1
  /\ UNCHANGED <<host, script, lock, files, remote, latest, database, harmed, faults, runs>>

Step(s) ==
  \/ \E n \in Names \cup {None} : Begin(s, n)
  \/ TakeLock(s)
  \/ \E is \in {"whole", "cut"} : Encrypt(s, is)
  \/ Validate(s) \/ Move(s) \/ Sum(s)
  \/ Inspect(s) \/ Put(s) \/ NoAnswer(s) \/ HeadObject(s) \/ Report(s)
  \/ Prune(s) \/ Relock(s) \/ Drop(s) \/ Load(s)
  \/ Interrupt(s) \/ Kill(s)

Next ==
  \/ \E s \in Scripts : Step(s)
  \/ \E l \in lock : RemoveLock(l)
  \/ \E h \in Hosts, n \in Names : Damage(h, n)
  \/ Tick

Spec == Init /\ [][Next]_vars

-----------------------------------------------------------------------------
\* A report of a verified backup tells that both of its objects are in the bucket and are
\* those of that backup, whichever answers were lost and whoever else stores under its
\* name (transferObject and main, replicate-backup-s3.mjs).
VerifiedIsOffsite ==
  \A h \in Hosts : latest[h] # None /\ latest[h].offsite = "verified" =>
    \A o \in {"file", "checksum"} : remote[<<latest[h].name, o>>] = latest[h].backup

\* What is published is the whole of a database that no restore was rewriting: dumps that
\* were cut off stay parts, and a restore has the host to itself (backup-postgres.sh,
\* restore-postgres.sh).  Where the two lock different directories it does not.
Reliable == Hosts \ (harmed \cup Apart)
PublishedIsWhole ==
  \A h \in Reliable : \A n \in Names : final[h][n] # None => final[h][n].is = "whole"

Restorable(h) ==
  \E n \in Names :
    final[h][n] # None /\ final[h][n].is = "whole" /\ checksum[h][n] = final[h][n]

\* A host that once has had a backup to restore from, with the checksum that a restore
\* asks for, keeps one, however many fail and however old the good ones grow
\* (backup-postgres.sh prunes after all else).
OneIsKept == [][\A h \in Reliable' : Restorable(h) => Restorable(h)']_<<final, checksum>>
=============================================================================
