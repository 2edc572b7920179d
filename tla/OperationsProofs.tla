-------------------------- MODULE OperationsProofs ---------------------------
(* Theorems about BackupReplication, for any number of scripts, hosts,       *)
(* attempts, runs, interrupts, kills and damages, and any retention, and     *)
(* about Deployment, for any number of runs with any options.                *)
EXTENDS Operations, TLAPS

-----------------------------------------------------------------------------
(* The backups: the inductive invariant.                                     *)

Backing == {"encrypt", "validate", "move", "checksum", "inspect", "put", "head", "report", "prune"}
Unpublished == {"encrypt", "validate", "move"}
Published == {"checksum", "inspect", "put", "head", "report", "prune"}
Inspected == {"put", "head", "report", "prune"}
Archives == Names \cup {None}

ScriptType ==
  [pc : {"idle"}]
    \cup [pc : {"lock"}, restore : Archives]
    \cup [pc : {"encrypt", "relock", "drop", "load"}, restore : Archives, name : Names]
    \cup [pc : {"validate", "move", "checksum", "inspect"}, restore : Archives, name : Names,
          dumped : BOOLEAN]
    \cup [pc : {"put", "head"}, restore : Archives, name : Names, backup : Dumps,
          object : {1, 2}, attempt : Nat]
    \cup [pc : {"report", "prune"}, restore : Archives, name : Names, backup : Dumps,
          offsite : {"failed", "verified"}]

LockDirectories == Hosts \X {"configured", "default"}
Directory == [Hosts -> [Names -> Dumps \cup {None}]]
Reported == [name : Names, backup : Dumps, offsite : {"failed", "verified"}]

TypeOK ==
  /\ now \in Names
  /\ host \in [Scripts -> Hosts]
  /\ script \in [Scripts -> ScriptType]
  /\ lock \subseteq LockDirectories
  /\ part \in Directory /\ final \in Directory /\ checksum \in Directory
  /\ remote \in [Names \X {"file", "checksum"} -> Dumps \cup {None}]
  /\ latest \in [Hosts -> Reported \cup {None}]
  /\ database \in [Hosts -> {"serving", "half"}]
  /\ harmed \subseteq Hosts
  /\ faults \in Nat /\ runs \in Nat

\* Whoever is at work has the lock directory of its script, alone.
Locked(s) == Holds(s) => LockOf(s) \in lock
Exclusive == \A s, t \in Scripts : Holds(s) /\ Holds(t) /\ LockOf(s) = LockOf(t) => s = t

\* What passes as a dump is the whole of one; what was published is new, still there, and
\* what its checksum says.
DumpSound(s) ==
  /\ At(s, "validate") /\ script[s].dumped /\ Mine(part, s) # None /\ host[s] \in Reliable =>
       Mine(part, s).is = "whole"
  /\ At(s, "move") => Mine(part, s) # None /\ (host[s] \in Reliable => Mine(part, s).is = "whole")
  /\ script[s].pc \in Unpublished => Mine(final, s) = None
  /\ script[s].pc \in Published => Mine(final, s) # None
  /\ script[s].pc \in Inspected /\ host[s] \in Reliable => Mine(checksum, s) = Mine(final, s)

\* Of what was sent the bucket has what was inspected.
Sent(s) ==
  /\ script[s].pc \in {"put", "head"} /\ script[s].object = 2 =>
       remote[<<script[s].name, "file">>] = script[s].backup
  /\ At(s, "report") /\ script[s].offsite = "verified" =>
       \A o \in {"file", "checksum"} : remote[<<script[s].name, o>>] = script[s].backup

\* A backup is not older than it may be.
Timely(s) ==
  script[s].pc \in Backing => script[s].name <= now /\ now - script[s].name <= RetentionDays

Sound(s) == Locked(s) /\ DumpSound(s) /\ Sent(s) /\ Timely(s)

\* Only a restore has half of a database, while it goes on.
HalfIsLoading ==
  \A h \in Hosts \ harmed : database[h] = "half" => \E s \in Scripts : host[s] = h /\ At(s, "load")

IInv ==
  /\ TypeOK /\ Exclusive /\ HalfIsLoading
  /\ \A s \in Scripts : Sound(s)
  /\ VerifiedIsOffsite /\ PublishedIsWhole

-----------------------------------------------------------------------------
LEMMA InitEstablishes == Init => IInv
<1> SUFFICES ASSUME Init
             PROVE  IInv
  OBVIOUS
<1>1. TypeOK
  BY BackupAssumption DEF Init, TypeOK, ScriptType, Idle, Directory, Names
<1>2. \A s \in Scripts : script[s].pc = "idle"
  BY DEF Init, Idle
<1>3. \A s \in Scripts : Sound(s) /\ ~ Holds(s)
  BY <1>2 DEF Sound, Locked, DumpSound, Sent, Timely, Holds, At, Published, Unpublished,
     Inspected, Backing
<1>4. HalfIsLoading /\ VerifiedIsOffsite /\ PublishedIsWhole
  BY DEF Init, HalfIsLoading, VerifiedIsOffsite, PublishedIsWhole, Reliable
<1> QED
  BY <1>1, <1>3, <1>4 DEF IInv, Exclusive

-----------------------------------------------------------------------------
(* What a script at work has.                                                *)

LEMMA Fields ==
  ASSUME TypeOK, NEW s \in Scripts
  PROVE  /\ script[s] \in ScriptType /\ host[s] \in Hosts
         /\ script[s].pc # "idle" => script[s].restore \in Archives
         /\ script[s].pc \notin {"idle", "lock"} => script[s].name \in Names
         /\ script[s].pc \in {"put", "head", "report", "prune"} => script[s].backup \in Dumps
         /\ script[s].pc \in {"put", "head"} =>
              script[s].object \in {1, 2} /\ script[s].attempt \in Nat
         /\ script[s].pc \in {"report", "prune"} => script[s].offsite \in {"failed", "verified"}
<1>1. script[s] \in ScriptType /\ host[s] \in Hosts
  BY DEF TypeOK
<1> QED
  BY <1>1 DEF ScriptType

LEMMA Mines ==
  ASSUME NEW f \in Directory, TypeOK, NEW s \in Scripts, script[s].pc \notin {"idle", "lock"}
  PROVE  /\ Mine(f, s) \in Dumps \cup {None}
         /\ \A v \in Dumps \cup {None} :
              /\ In(f, s, v) \in Directory
              /\ In(f, s, v)[host[s]][script[s].name] = v
              /\ \A h \in Hosts, n \in Names :
                   h # host[s] \/ n # script[s].name => In(f, s, v)[h][n] = f[h][n]
              /\ \A h \in Hosts : h # host[s] => In(f, s, v)[h] = f[h]
<1>1. host[s] \in Hosts /\ script[s].name \in Names
  BY Fields
<1>2. f[host[s]] \in [Names -> Dumps \cup {None}]
  BY <1>1 DEF Directory
<1>3. Mine(f, s) \in Dumps \cup {None}
  BY <1>1, <1>2 DEF Mine
<1>4. ASSUME NEW v \in Dumps \cup {None}
      PROVE  /\ In(f, s, v) \in Directory
             /\ In(f, s, v)[host[s]][script[s].name] = v
             /\ \A h \in Hosts, n \in Names :
                  h # host[s] \/ n # script[s].name => In(f, s, v)[h][n] = f[h][n]
             /\ \A h \in Hosts : h # host[s] => In(f, s, v)[h] = f[h]
  <2> DEFINE row == [f[host[s]] EXCEPT ![script[s].name] = v]
  <2>1. /\ row \in [Names -> Dumps \cup {None}] /\ row[script[s].name] = v
        /\ \A n \in Names : n # script[s].name => row[n] = f[host[s]][n]
    BY <1>1, <1>2
  <2>2. In(f, s, v) = [f EXCEPT ![host[s]] = row]
    BY DEF In
  <2> HIDE DEF row
  <2>3. /\ In(f, s, v) \in Directory /\ In(f, s, v)[host[s]] = row
        /\ \A h \in Hosts : h # host[s] => In(f, s, v)[h] = f[h]
    BY <1>1, <2>1, <2>2 DEF Directory
  <2> QED
    BY <2>1, <2>3
<1> QED
  BY <1>3, <1>4

-----------------------------------------------------------------------------
(* A step of one script, as the others see it.                               *)

Kept == \A o \in Names \X {"file", "checksum"} : remote[o] # None => remote'[o] = remote[o]

\* A script keeps its lock, and a backup finds its files as they were.
Undisturbed(t) ==
  /\ LockOf(t) \in lock => LockOf(t) \in lock'
  /\ ~ Restoring(t) => /\ part'[host[t]] = part[host[t]] /\ final'[host[t]] = final[host[t]]
                       /\ checksum'[host[t]] = checksum[host[t]]

LEMMA LockType ==
  ASSUME TypeOK, NEW s \in Scripts
  PROVE  /\ LockOf(s) \in LockDirectories /\ host[s] \in Hosts
         /\ BackupLock(host[s]) \in LockDirectories /\ RestoreLock(host[s]) \in LockDirectories
<1>1. host[s] \in Hosts
  BY Fields
<1> QED
  BY <1>1 DEF LockOf, BackupLock, RestoreLock, LockDirectories

\* A script that goes on keeps its lock, unless it goes from a backup to a restore.
KeepsLock(s, r) == Holds(s) /\ (r.pc \in {"drop", "load"} <=> Restoring(s))

LEMMA SameLock ==
  ASSUME NEW t \in Scripts, script'[t].pc \in {"drop", "load"} <=> Restoring(t), UNCHANGED host
  PROVE  LockOf(t)' = LockOf(t)
  BY DEF LockOf, Restoring, BackupLock, RestoreLock

LEMMA OthersStay ==
  ASSUME IInv, NEW t \in Scripts, script'[t] = script[t], UNCHANGED <<host, now>>,
         Kept, harmed \subseteq harmed', Holds(t) => Undisturbed(t)
  PROVE  Sound(t)'
<1>1. Sound(t) /\ (script[t].pc \notin {"idle", "lock"} => script[t].name \in Names)
  BY Fields DEF IInv
<1>2. Holds(t)' <=> Holds(t)
  BY DEF Holds
<1>3. Locked(t)'
  <2>1. LockOf(t)' = LockOf(t)
    BY SameLock DEF Restoring
  <2> QED
    BY <1>1, <1>2, <2>1 DEF Sound, Locked, Undisturbed
<1>4. DumpSound(t)'
  <2>1. host[t] \in Reliable' => host[t] \in Reliable
    BY DEF Reliable
  <2>2. CASE Holds(t) /\ ~ Restoring(t)
    BY <1>1, <2>1, <2>2 DEF Sound, DumpSound, Undisturbed, Mine, At, Holds, Published,
       Unpublished, Inspected
  <2>3. CASE ~ Holds(t) \/ Restoring(t)
    BY <2>3 DEF DumpSound, Holds, Restoring, At, Published, Unpublished, Inspected
  <2> QED
    BY <2>2, <2>3
<1>5. Timely(t)'
  BY <1>1 DEF Sound, Timely
<1>6. Sent(t)'
  <2>1. /\ script[t].pc \in {"put", "head", "report"} =>
             /\ script[t].backup # None
             /\ \A o \in {"file", "checksum"} : <<script[t].name, o>> \in Names \X {"file", "checksum"}
    BY <1>1, Fields, NoneAssumption DEF IInv
  <2> QED
    BY <1>1, <2>1 DEF Sound, Sent, Kept, At
<1> QED
  BY <1>3, <1>4, <1>5, <1>6 DEF Sound

\* Reports stay true, since the bucket loses nothing.
LEMMA ReportsStay ==
  ASSUME IInv, UNCHANGED latest, Kept
  PROVE  VerifiedIsOffsite'
<1> SUFFICES ASSUME NEW h \in Hosts, latest[h] # None, latest[h].offsite = "verified",
                    NEW o \in {"file", "checksum"}
             PROVE  remote'[<<latest[h].name, o>>] = latest[h].backup
  BY DEF VerifiedIsOffsite
<1>1. latest[h] \in Reported
  BY DEF IInv, TypeOK
<1>2. latest[h].name \in Names /\ latest[h].backup \in Dumps
  BY <1>1 DEF Reported
<1>3. remote[<<latest[h].name, o>>] = latest[h].backup
  BY DEF IInv, VerifiedIsOffsite
<1> QED
  BY <1>2, <1>3, NoneAssumption DEF Kept

LEMMA HalfStays ==
  ASSUME IInv, NEW s \in Scripts, NEW r, Become(s, r), ~ At(s, "load"),
         UNCHANGED <<host, database>>, harmed \subseteq harmed'
  PROVE  HalfIsLoading'
<1>1. \A t \in Scripts : t # s => script'[t] = script[t]
  BY DEF Become, IInv, TypeOK
<1> SUFFICES ASSUME NEW h \in Hosts, h \notin harmed', database[h] = "half"
             PROVE  \E t \in Scripts : host[t] = h /\ script'[t].pc = "load"
  BY DEF HalfIsLoading, At
<1>2. PICK t \in Scripts : host[t] = h /\ script[t].pc = "load"
  BY DEF IInv, HalfIsLoading, At
<1> QED
  BY <1>1, <1>2 DEF At

LEMMA PublishedStays ==
  ASSUME IInv, UNCHANGED final, harmed \subseteq harmed'
  PROVE  PublishedIsWhole'
  BY DEF IInv, PublishedIsWhole, Reliable

LEMMA AtRest ==
  ASSUME NEW s \in Scripts, script'[s].pc \in {"idle", "lock", "relock"}
  PROVE  Sound(s)'
  BY DEF Sound, Locked, Holds, DumpSound, Sent, Timely, At, Published, Unpublished, Inspected,
     Backing

\* Two backups, two restores, or any two where both lock the same directory, are apart.
LEMMA Alone ==
  ASSUME IInv, NEW s \in Scripts, NEW t \in Scripts, t # s, Holds(s), Holds(t)
  PROVE  /\ LockOf(t) # LockOf(s)
         /\ ((Restoring(s) <=> Restoring(t)) \/ host[s] \notin Apart) => host[t] # host[s]
<1>1. LockOf(t) # LockOf(s)
  BY DEF IInv, Exclusive
<1> QED
  BY <1>1 DEF LockOf, RestoreLock

\* A step of one script keeps the invariant, if what it says of this script and of the
\* files and reports is kept.
LEMMA ScriptStep ==
  ASSUME IInv, NEW s \in Scripts, NEW r \in ScriptType, Become(s, r), UNCHANGED <<now, host>>,
         lock' \subseteq LockDirectories, part' \in Directory, final' \in Directory, checksum' \in Directory,
         remote' \in [Names \X {"file", "checksum"} -> Dumps \cup {None}],
         latest' \in [Hosts -> Reported \cup {None}],
         database' \in [Hosts -> {"serving", "half"}],
         harmed \subseteq harmed', harmed' \subseteq Hosts, faults' \in Nat, runs' \in Nat, Kept,
         \A t \in Scripts : t # s /\ Holds(t) => Undisturbed(t),
         r.pc \notin {"idle", "lock", "relock"} => KeepsLock(s, r) \/ LockOf(s)' \notin lock,
         Sound(s)', HalfIsLoading', VerifiedIsOffsite', PublishedIsWhole'
  PROVE  IInv'
<1>1. /\ script' \in [Scripts -> ScriptType] /\ script'[s] = r
      /\ \A t \in Scripts : t # s => script'[t] = script[t]
  BY DEF Become, IInv, TypeOK
<1>2. TypeOK'
  BY <1>1 DEF IInv, TypeOK
<1>3. ASSUME NEW t \in Scripts
      PROVE  Sound(t)'
  <2>1. CASE t = s
    BY <2>1
  <2>2. CASE t # s
    BY <1>1, <2>2, OthersStay
  <2> QED
    BY <2>1, <2>2
<1>4. Exclusive'
  <2>1. \A t \in Scripts : t # s => (Holds(t)' <=> Holds(t)) /\ LockOf(t)' = LockOf(t)
    BY <1>1, SameLock DEF Holds, Restoring
  <2>2. Holds(s)' => (Holds(s) /\ LockOf(s)' = LockOf(s)) \/ LockOf(s)' \notin lock
    BY <1>1, SameLock DEF Holds, KeepsLock
  <2>3. \A t \in Scripts : Holds(t) => LockOf(t) \in lock
    BY DEF IInv, Sound, Locked
  <2> QED
    BY <2>1, <2>2, <2>3 DEF IInv, Exclusive
<1> QED
  BY <1>2, <1>3, <1>4 DEF IInv

\* A script that holds a lock removes no other, and a backup changes nothing on other hosts.
LEMMA Elsewhere ==
  ASSUME IInv, NEW s \in Scripts, Holds(s), NEW t \in Scripts, t # s, Holds(t),
         lock \ {LockOf(s)} \subseteq lock',
         \A h \in Hosts : h # host[s] =>
           part'[h] = part[h] /\ final'[h] = final[h] /\ checksum'[h] = checksum[h],
         Restoring(s) => UNCHANGED <<part, final, checksum>>
  PROVE  Undisturbed(t)
<1>1. host[t] \in Hosts /\ LockOf(t) # LockOf(s)
  BY Alone, Fields DEF IInv
<1>2. LockOf(t) \in lock => LockOf(t) \in lock'
  BY <1>1
<1>3. CASE Restoring(s)
  BY <1>2, <1>3 DEF Undisturbed
<1>4. CASE ~ Restoring(s) /\ ~ Restoring(t)
  <2>1. host[t] # host[s]
    BY <1>4, Alone
  <2> QED
    BY <1>1, <1>2, <2>1 DEF Undisturbed
<1>5. CASE Restoring(t)
  BY <1>2, <1>5 DEF Undisturbed
<1> QED
  BY <1>3, <1>4, <1>5

LEMMA StillAtWork ==
  ASSUME IInv, NEW s \in Scripts, script[s].pc \in Backing, script'[s].pc \in Backing,
         script'[s].name = script[s].name, UNCHANGED <<now, host, lock>>
  PROVE  Locked(s)' /\ Timely(s)'
<1>1. LockOf(s)' = LockOf(s)
  BY SameLock DEF Restoring, Backing
<1>2. Sound(s) /\ Holds(s)
  BY DEF IInv, Holds, Backing
<1> QED
  BY <1>1, <1>2 DEF Sound, Locked, Timely

LEMMA IdleType == Idle \in ScriptType /\ Idle.pc = "idle"
  BY DEF Idle, ScriptType

LEMMA HoldsName ==
  ASSUME TypeOK, NEW s \in Scripts, Holds(s)
  PROVE  script[s].pc \notin {"idle", "lock"} /\ script[s].name \in Names
  BY Fields DEF Holds

LEMMA CleanUps ==
  ASSUME IInv, NEW s \in Scripts, Holds(s), CleanUp(s)
  PROVE  /\ part' \in Directory /\ lock' \subseteq LockDirectories
         /\ lock \ {LockOf(s)} \subseteq lock'
         /\ \A h \in Hosts : h # host[s] => part'[h] = part[h]
         /\ Restoring(s) => UNCHANGED part
<1>1. /\ part' = IF Restoring(s) THEN part ELSE In(part, s, None)
      /\ lock' = lock \ {LockOf(s)} /\ part \in Directory /\ lock \subseteq LockDirectories
  BY DEF CleanUp, IInv, TypeOK
<1>2. script[s].pc \notin {"idle", "lock"}
  BY HoldsName DEF IInv
<1> QED
  BY <1>1, <1>2, Mines DEF IInv

\* A script that held the lock ends.
LEMMA ExitStep ==
  ASSUME IInv, NEW s \in Scripts, Holds(s), Exit(s),
         UNCHANGED <<now, host, final, checksum, remote, latest>>,
         database' \in [Hosts -> {"serving", "half"}], harmed \subseteq harmed',
         harmed' \subseteq Hosts, faults' \in Nat, runs' \in Nat, HalfIsLoading'
  PROVE  IInv'
<1>1. Become(s, Idle) /\ CleanUp(s)
  BY DEF Exit
<1>3. /\ part' \in Directory /\ lock' \subseteq LockDirectories /\ lock \ {LockOf(s)} \subseteq lock'
      /\ \A h \in Hosts : h # host[s] => part'[h] = part[h]
      /\ Restoring(s) => UNCHANGED part
  BY <1>1, CleanUps
<1>4. \A t \in Scripts : t # s /\ Holds(t) => Undisturbed(t)
  BY <1>3, Elsewhere
<1>5. Kept
  BY DEF Kept
<1>6. Sound(s)'
  <2>1. script'[s].pc = "idle"
    BY <1>1, IdleType DEF Become, IInv, TypeOK
  <2> QED
    BY <2>1, AtRest
<1>7. VerifiedIsOffsite' /\ PublishedIsWhole'
  BY <1>5, ReportsStay, PublishedStays
<1> QED
  BY <1>1, <1>3, <1>4, <1>5, <1>6, <1>7, IdleType, ScriptStep DEF IInv, TypeOK, KeepsLock

\* A script goes on, files, reports and databases being left alone.
LEMMA QuietStep ==
  ASSUME IInv, NEW s \in Scripts, NEW r \in ScriptType, Become(s, r), ~ At(s, "load"),
         UNCHANGED <<now, host, lock, part, final, checksum, latest, database>>,
         harmed \subseteq harmed', harmed' \subseteq Hosts, faults' \in Nat, runs' \in Nat,
         remote' \in [Names \X {"file", "checksum"} -> Dumps \cup {None}], Kept,
         r.pc \notin {"idle", "lock", "relock"} => KeepsLock(s, r), Sound(s)'
  PROVE  IInv'
<1>1. \A t \in Scripts : Undisturbed(t)
  BY DEF Undisturbed
<1>2. HalfIsLoading' /\ VerifiedIsOffsite' /\ PublishedIsWhole'
  BY HalfStays, ReportsStay, PublishedStays
<1> QED
  BY <1>1, <1>2, ScriptStep DEF IInv, TypeOK, KeepsLock

-----------------------------------------------------------------------------
(* A backup, step by step.                                                   *)

LEMMA Becomes ==
  ASSUME TypeOK, NEW s \in Scripts, NEW r, Become(s, r)
  PROVE  script'[s] = r
  BY DEF TypeOK, Become

LEMMA BeginStep ==
  ASSUME IInv, NEW s \in Scripts, NEW n \in Archives, Begin(s, n)
  PROVE  IInv'
<1> DEFINE r == [pc |-> "lock", restore |-> n]
<1>1. /\ script[s].pc = "idle" /\ Become(s, r) /\ runs' = runs + 1
      /\ UNCHANGED <<now, host, lock, part, final, checksum, remote, latest, database, harmed, faults>>
  BY DEF Begin, At, files
<1>2. r \in ScriptType /\ r.pc = "lock"
  BY DEF ScriptType
<1> HIDE DEF r
<1>3. Sound(s)'
  BY <1>1, <1>2, Becomes, AtRest DEF IInv
<1>4. Kept /\ remote' \in [Names \X {"file", "checksum"} -> Dumps \cup {None}]
  BY <1>1 DEF Kept, IInv, TypeOK
<1>5. harmed \subseteq harmed' /\ harmed' \subseteq Hosts /\ faults' \in Nat /\ runs' \in Nat
      /\ ~ At(s, "load")
  BY <1>1 DEF IInv, TypeOK, At
<1> QED
  BY <1>1, <1>2, <1>3, <1>4, <1>5, QuietStep

LEMMA TakeLockStep ==
  ASSUME IInv, NEW s \in Scripts, TakeLock(s)
  PROVE  IInv'
<1>1. /\ script[s].pc = "lock"
      /\ UNCHANGED <<now, host, part, final, checksum, remote, latest, database, harmed, faults, runs>>
  BY DEF TakeLock, At, files
<1>2. Kept /\ remote' \in [Names \X {"file", "checksum"} -> Dumps \cup {None}]
  BY <1>1 DEF Kept, IInv, TypeOK
<1>3. harmed \subseteq harmed' /\ harmed' \subseteq Hosts /\ faults' \in Nat /\ runs' \in Nat
      /\ ~ At(s, "load") /\ script[s].restore \in Archives /\ host[s] \in Hosts
  BY <1>1, Fields DEF IInv, TypeOK, At
<1>4. CASE BackupLock(host[s]) \in lock
  <2>1. Become(s, Idle) /\ UNCHANGED lock
    BY <1>4 DEF TakeLock, Refused
  <2>2. Sound(s)'
    BY <2>1, IdleType, Becomes, AtRest DEF IInv
  <2> QED
    BY <1>1, <1>2, <1>3, <2>1, <2>2, IdleType, QuietStep
<1>5. CASE BackupLock(host[s]) \notin lock
  <2> DEFINE r == [pc |-> "encrypt", restore |-> script[s].restore, name |-> now]
  <2>1. Become(s, r) /\ lock' = lock \cup {BackupLock(host[s])} /\ final[host[s]][now] = None
    BY <1>5 DEF TakeLock
  <2>2. r \in ScriptType /\ r.pc = "encrypt" /\ r.name = now
    BY <1>3 DEF ScriptType, IInv, TypeOK
  <2> HIDE DEF r
  <2>3. Sound(s)'
    <3>1. script'[s].pc = "encrypt" /\ script'[s].name = now /\ now - now = 0 /\ RetentionDays >= 0
      BY <2>1, <2>2, Becomes, BackupAssumption DEF IInv, TypeOK, Names
    <3>2. now' = now /\ now <= now
      BY <1>1 DEF IInv, TypeOK, Names
    <3>3. LockOf(s)' = BackupLock(host[s])
      BY <1>1, <3>1 DEF LockOf, Restoring, BackupLock
    <3>4. Locked(s)' /\ Timely(s)' /\ Sent(s)'
      BY <1>1, <2>1, <3>1, <3>2, <3>3 DEF Locked, Timely, Sent, At
    <3>5. DumpSound(s)'
      BY <1>1, <2>1, <3>1 DEF DumpSound, Mine, At, Published, Unpublished, Inspected
    <3> QED
      BY <3>4, <3>5 DEF Sound
  <2>4. \A t \in Scripts : Undisturbed(t)
    BY <1>1, <2>1 DEF Undisturbed
  <2>5. HalfIsLoading' /\ VerifiedIsOffsite' /\ PublishedIsWhole'
    BY <1>1, <1>2, <1>3, <2>1, HalfStays, ReportsStay, PublishedStays
  <2>6. lock' \subseteq LockDirectories
    BY <2>1, LockType DEF IInv, TypeOK
  <2>7. LockOf(s)' \notin lock
    <3>1. LockOf(s)' = BackupLock(host[s])
      BY <1>1, <2>1, <2>2, Becomes DEF LockOf, Restoring, BackupLock, IInv
    <3> QED
      BY <1>5, <3>1
  <2> QED
    BY <1>1, <1>2, <1>3, <2>1, <2>2, <2>3, <2>4, <2>5, <2>6, <2>7, ScriptStep DEF IInv, TypeOK,
       KeepsLock
<1> QED
  BY <1>4, <1>5

\* Whoever backs up finds all of the database, where no harm was done and a restore locks
\* the same directory.
LEMMA Serving ==
  ASSUME IInv, NEW s \in Scripts, Holds(s), ~ At(s, "load"), host[s] \in Reliable
  PROVE  database[host[s]] = "serving"
<1>1. host[s] \in Hosts /\ database[host[s]] \in {"serving", "half"}
  BY Fields DEF IInv, TypeOK
<1>2. ASSUME database[host[s]] = "half"
      PROVE  FALSE
  <2>1. PICK t \in Scripts : host[t] = host[s] /\ At(t, "load")
    BY <1>1, <1>2 DEF IInv, HalfIsLoading, Reliable
  <2>2. Holds(t) /\ t # s
    BY <2>1 DEF At, Holds
  <2> QED
    BY <2>1, <2>2, Alone DEF Reliable
<1> QED
  BY <1>1, <1>2

LEMMA FaultType ==
  ASSUME TypeOK, Fault \/ UNCHANGED faults
  PROVE  faults' \in Nat
  BY DEF Fault, TypeOK

LEMMA EncryptStep ==
  ASSUME IInv, NEW s \in Scripts, NEW is \in {"whole", "cut"}, Encrypt(s, is)
  PROVE  IInv'
<1>1. /\ script[s].pc = "encrypt" /\ Holds(s) /\ ~ Restoring(s) /\ ~ At(s, "load")
      /\ UNCHANGED <<now, host, final, checksum, remote, latest, database, harmed, runs>>
  BY DEF Encrypt, At, Holds, Restoring
<1>2. faults' \in Nat
  BY FaultType DEF Encrypt, IInv
<1>3. Kept
  BY <1>1 DEF Kept
<1>4. CASE Exit(s)
  <2>1. HalfIsLoading'
    BY <1>1, <1>4, HalfStays DEF Exit
  <2> QED
    BY <1>1, <1>2, <1>4, <2>1, ExitStep DEF IInv, TypeOK
<1>5. CASE ~ Exit(s)
  <2> DEFINE dump == [by |-> s, is |-> IF database[host[s]] = "half" THEN "half" ELSE is]
             r == [pc |-> "validate", restore |-> script[s].restore, name |-> script[s].name,
                   dumped |-> is = "whole"]
  <2>1. part' = In(part, s, dump) /\ Become(s, r) /\ UNCHANGED lock
    BY <1>5 DEF Encrypt
  <2>2. dump \in Dumps
    BY DEF Dumps
  <2>3. r \in ScriptType
    <3>1. (is = "whole") \in BOOLEAN
      OBVIOUS
    <3>2. script[s].restore \in Archives /\ script[s].name \in Names
      BY <1>1, Fields DEF IInv
    <3> QED
      BY <3>1, <3>2 DEF ScriptType
  <2>4. host[s] \in Reliable /\ r.dumped => dump.is = "whole"
    BY <1>1, Serving
  <2>5. r.pc = "validate" /\ r.name = script[s].name
    OBVIOUS
  <2> HIDE DEF dump, r
  <2>6. /\ part' \in Directory /\ part'[host[s]][script[s].name] = dump
        /\ \A h \in Hosts : h # host[s] => part'[h] = part[h]
    <3>1. part \in Directory
      BY DEF IInv, TypeOK
    <3> QED
      BY <1>1, <2>1, <2>2, <3>1, Mines DEF IInv
  <2>7. script'[s] = r
    BY <2>1, Becomes DEF IInv
  <2>8. Sound(s)'
    <3>1. Sound(s)
      BY DEF IInv
    <3>2. Locked(s)' /\ Timely(s)'
      BY <1>1, <2>1, <2>5, <2>7, <3>1, StillAtWork DEF Backing
    <3>3. DumpSound(s)' /\ Sent(s)'
      BY <1>1, <2>4, <2>5, <2>6, <2>7, <3>1
         DEF Sound, DumpSound, Sent, At, Mine, Reliable, Published, Unpublished, Inspected
    <3> QED
      BY <3>2, <3>3 DEF Sound
  <2>9. \A t \in Scripts : t # s /\ Holds(t) => Undisturbed(t)
    BY <1>1, <2>1, <2>6, Elsewhere
  <2>10. HalfIsLoading' /\ VerifiedIsOffsite' /\ PublishedIsWhole'
    BY <1>1, <1>3, <2>1, HalfStays, ReportsStay, PublishedStays
  <2> QED
    BY <1>1, <1>2, <1>3, <2>1, <2>3, <2>5, <2>6, <2>8, <2>9, <2>10, ScriptStep DEF IInv, TypeOK,
       KeepsLock
<1> QED
  BY <1>4, <1>5

\* A script that holds the lock goes on.
LEMMA Going ==
  ASSUME IInv, NEW s \in Scripts, Holds(s), NEW pc, Goto(s, pc),
         \/ script[s].pc \in {"validate", "move", "checksum"} /\ pc \in {"move", "checksum", "inspect"}
         \/ script[s].pc = "put" /\ pc = "head"
         \/ script[s].pc = "report" /\ pc = "prune"
         \/ script[s].pc \in {"relock", "drop"} /\ pc \in {"drop", "load"}
  PROVE  \E r \in ScriptType :
           /\ Become(s, r) /\ script'[s] = r /\ r.pc = pc /\ r.name = script[s].name
           /\ script[s].pc \in {"put", "report"} => r.backup = script[s].backup
           /\ script[s].pc = "put" => r.object = script[s].object
           /\ script[s].pc = "report" => r.offsite = script[s].offsite
<1> DEFINE r == [script[s] EXCEPT !.pc = pc]
<1>1. script[s] \in ScriptType
  BY DEF IInv, TypeOK
<1>2. /\ r \in ScriptType /\ r.pc = pc /\ r.name = script[s].name
      /\ script[s].pc \in {"put", "report"} => r.backup = script[s].backup
      /\ script[s].pc = "put" => r.object = script[s].object
      /\ script[s].pc = "report" => r.offsite = script[s].offsite
  BY <1>1 DEF ScriptType
<1>3. Become(s, r)
  BY DEF Goto
<1> HIDE DEF r
<1> QED
  BY <1>2, <1>3, Becomes DEF IInv

LEMMA ValidateStep ==
  ASSUME IInv, NEW s \in Scripts, Validate(s)
  PROVE  IInv'
<1>1. /\ script[s].pc = "validate" /\ Holds(s) /\ ~ Restoring(s) /\ ~ At(s, "load")
      /\ UNCHANGED <<now, host, final, checksum, remote, latest, database, harmed, faults, runs>>
  BY DEF Validate, At, Holds, Restoring
<1>2. Kept
  BY <1>1 DEF Kept
<1>3. CASE Dumped(s)
  <2>1. Goto(s, "move") /\ UNCHANGED <<part, lock>>
    BY <1>3 DEF Validate
  <2>2. PICK r \in ScriptType :
          Become(s, r) /\ script'[s] = r /\ r.pc = "move" /\ r.name = script[s].name
    BY <1>1, <2>1, Going
  <2>3. Sound(s)'
    <3>1. Sound(s) /\ Mine(part, s) # None /\ (host[s] \in Reliable => Mine(part, s).is = "whole")
      BY <1>1, <1>3 DEF IInv, Sound, DumpSound, Dumped, Readable, At
    <3>2. Locked(s)' /\ Timely(s)'
      BY <1>1, <2>1, <2>2, <3>1, StillAtWork DEF Backing
    <3>3. DumpSound(s)' /\ Sent(s)'
      BY <1>1, <2>1, <2>2, <3>1 
         DEF Sound, DumpSound, Sent, At, Mine, Reliable, Published, Unpublished, Inspected
    <3> QED
      BY <3>2, <3>3 DEF Sound
  <2> QED
    BY <1>1, <1>2, <2>1, <2>2, <2>3, QuietStep DEF IInv, TypeOK, KeepsLock
<1>4. CASE ~ Dumped(s)
  <2>1. Exit(s)
    BY <1>4 DEF Validate, Fails
  <2>2. HalfIsLoading'
    BY <1>1, <2>1, HalfStays DEF Exit
  <2> QED
    BY <1>1, <2>1, <2>2, ExitStep DEF IInv, TypeOK
<1> QED
  BY <1>3, <1>4

LEMMA MoveStep ==
  ASSUME IInv, NEW s \in Scripts, Move(s)
  PROVE  IInv'
<1>1. /\ script[s].pc = "move" /\ Holds(s) /\ ~ Restoring(s) /\ ~ At(s, "load") /\ Goto(s, "checksum")
      /\ final' = In(final, s, Mine(part, s)) /\ part' = In(part, s, None)
      /\ UNCHANGED <<now, host, lock, checksum, remote, latest, database, harmed, faults, runs>>
  BY DEF Move, At, Holds, Restoring
<1>2. Kept
  BY <1>1 DEF Kept
<1>3. PICK r \in ScriptType :
        Become(s, r) /\ script'[s] = r /\ r.pc = "checksum" /\ r.name = script[s].name
  BY <1>1, Going
<1>4. /\ Sound(s) /\ Mine(part, s) # None /\ Mine(final, s) = None
      /\ host[s] \in Reliable => Mine(part, s).is = "whole"
      /\ part \in Directory /\ final \in Directory /\ checksum \in Directory
  BY <1>1 DEF IInv, TypeOK, Sound, DumpSound, At, Unpublished
<1>5. /\ part' \in Directory /\ \A h \in Hosts : h # host[s] => part'[h] = part[h]
      /\ Mine(part, s) \in Dumps \cup {None}
  BY <1>1, <1>4, Mines DEF IInv
<1>6. /\ final' \in Directory /\ final'[host[s]][script[s].name] = Mine(part, s)
      /\ \A h \in Hosts : h # host[s] => final'[h] = final[h]
      /\ \A h \in Hosts, n \in Names :
           h # host[s] \/ n # script[s].name => final'[h][n] = final[h][n]
  BY <1>1, <1>4, <1>5, Mines DEF IInv
<1>7. Sound(s)'
  <2>1. Locked(s)' /\ Timely(s)'
    BY <1>1, <1>3, <1>4, StillAtWork DEF Backing
  <2>2. DumpSound(s)' /\ Sent(s)'
    BY <1>1, <1>3, <1>4, <1>6 DEF DumpSound, Sent, At, Mine, Published, Unpublished, Inspected
  <2> QED
    BY <2>1, <2>2 DEF Sound
<1>8. \A t \in Scripts : t # s /\ Holds(t) => Undisturbed(t)
  BY <1>1, <1>5, <1>6, Elsewhere
<1>9. PublishedIsWhole'
  BY <1>1, <1>4, <1>6 DEF IInv, PublishedIsWhole, Reliable
<1>10. HalfIsLoading' /\ VerifiedIsOffsite'
  BY <1>1, <1>2, <1>3, HalfStays, ReportsStay
<1> QED
  BY <1>1, <1>2, <1>3, <1>4, <1>5, <1>6, <1>7, <1>8, <1>9, <1>10, ScriptStep DEF IInv, TypeOK,
     KeepsLock

LEMMA SumStep ==
  ASSUME IInv, NEW s \in Scripts, Sum(s)
  PROVE  IInv'
<1>1. /\ script[s].pc = "checksum" /\ Holds(s) /\ ~ Restoring(s) /\ ~ At(s, "load") /\ Goto(s, "inspect")
      /\ checksum' = In(checksum, s, Mine(final, s))
      /\ UNCHANGED <<now, host, lock, part, final, remote, latest, database, harmed, faults, runs>>
  BY DEF Sum, At, Holds, Restoring
<1>2. Kept
  BY <1>1 DEF Kept
<1>3. PICK r \in ScriptType :
        Become(s, r) /\ script'[s] = r /\ r.pc = "inspect" /\ r.name = script[s].name
  BY <1>1, Going
<1>4. final \in Directory /\ checksum \in Directory /\ Sound(s) /\ Mine(final, s) # None
  BY <1>1 DEF IInv, TypeOK, Sound, DumpSound, Published, Unpublished, Inspected
<1>5. checksum' \in Directory /\ \A h \in Hosts : h # host[s] => checksum'[h] = checksum[h]
  <2>1. Mine(final, s) \in Dumps \cup {None}
    BY <1>1, <1>4, Mines DEF IInv
  <2> QED
    BY <1>1, <1>4, <2>1, Mines DEF IInv
<1>6. Sound(s)'
  <2>1. Locked(s)' /\ Timely(s)'
    BY <1>1, <1>3, <1>4, StillAtWork DEF Backing
  <2>2. DumpSound(s)' /\ Sent(s)'
    BY <1>1, <1>3, <1>4 DEF DumpSound, Sent, At, Mine, Published, Unpublished, Inspected
  <2> QED
    BY <2>1, <2>2 DEF Sound
<1>7. \A t \in Scripts : t # s /\ Holds(t) => Undisturbed(t)
  BY <1>1, <1>5, Elsewhere
<1>8. HalfIsLoading' /\ VerifiedIsOffsite' /\ PublishedIsWhole'
  BY <1>1, <1>2, <1>3, HalfStays, ReportsStay, PublishedStays
<1> QED
  BY <1>1, <1>2, <1>3, <1>5, <1>6, <1>7, <1>8, ScriptStep DEF IInv, TypeOK, KeepsLock

LEMMA InspectStep ==
  ASSUME IInv, NEW s \in Scripts, Inspect(s)
  PROVE  IInv'
<1>1. /\ script[s].pc = "inspect" /\ Holds(s) /\ ~ Restoring(s) /\ ~ At(s, "load")
      /\ UNCHANGED <<now, host, final, checksum, remote, latest, database, harmed, faults, runs>>
  BY DEF Inspect, At, Holds, Restoring
<1>2. Kept
  BY <1>1 DEF Kept
<1>3. CASE Mine(final, s) = Mine(checksum, s)
  <2> DEFINE r == [pc |-> "put", restore |-> script[s].restore, name |-> script[s].name,
                   backup |-> Mine(final, s), object |-> 1, attempt |-> 1]
  <2>1. Become(s, r) /\ UNCHANGED <<part, lock>>
    BY <1>3 DEF Inspect
  <2>2. final \in Directory /\ Sound(s) /\ Mine(final, s) # None
    BY <1>1 DEF IInv, TypeOK, Sound, DumpSound, Published, Unpublished, Inspected
  <2>3. Mine(final, s) \in Dumps /\ script[s].restore \in Archives /\ script[s].name \in Names
    BY <1>1, <2>2, Mines, Fields DEF IInv
  <2>4. r \in ScriptType /\ r.pc = "put" /\ r.name = script[s].name /\ r.object = 1
    BY <2>3 DEF ScriptType
  <2> HIDE DEF r
  <2>5. script'[s] = r
    BY <2>1, Becomes DEF IInv
  <2>6. Sound(s)'
    <3>1. Locked(s)' /\ Timely(s)'
      BY <1>1, <2>1, <2>2, <2>4, <2>5, StillAtWork DEF Backing
    <3>2. DumpSound(s)' /\ Sent(s)'
      BY <1>1, <1>3, <2>2, <2>4, <2>5
         DEF DumpSound, Sent, At, Mine, Reliable, Published, Unpublished, Inspected
    <3> QED
      BY <3>1, <3>2 DEF Sound
  <2> QED
    BY <1>1, <1>2, <2>1, <2>4, <2>6, QuietStep DEF IInv, TypeOK, KeepsLock
<1>4. CASE Mine(final, s) # Mine(checksum, s)
  <2>1. Exit(s)
    BY <1>4 DEF Inspect, Fails
  <2>2. HalfIsLoading'
    BY <1>1, <2>1, HalfStays DEF Exit
  <2> QED
    BY <1>1, <2>1, <2>2, ExitStep DEF IInv, TypeOK
<1> QED
  BY <1>3, <1>4

\* A step of the copy to the bucket.
LEMMA CopyStep ==
  ASSUME IInv, NEW s \in Scripts, script[s].pc \in {"put", "head"}, NEW r \in ScriptType,
         Become(s, r), r.pc \in {"put", "head", "report"}, r.name = script[s].name,
         UNCHANGED <<now, host, lock, files, latest, database, harmed, runs>>, faults' \in Nat,
         remote' \in [Names \X {"file", "checksum"} -> Dumps \cup {None}], Kept, Sent(s)'
  PROVE  IInv'
<1>1. /\ Holds(s) /\ ~ Restoring(s) /\ ~ At(s, "load") /\ script'[s] = r
      /\ UNCHANGED <<part, final, checksum>>
  BY Becomes DEF IInv, At, Holds, Restoring, files
<1>2. Sound(s)
  BY DEF IInv
<1>3. Locked(s)' /\ Timely(s)'
  BY <1>1, <1>2, StillAtWork DEF Backing
<1>4. DumpSound(s)'
  BY <1>1, <1>2 DEF Sound, DumpSound, At, Mine, Reliable, Published, Unpublished, Inspected
<1>5. Sound(s)'
  BY <1>3, <1>4 DEF Sound
<1> QED
  BY <1>1, <1>5, QuietStep DEF IInv, TypeOK, KeepsLock

Copying ==
  [pc : {"put", "head"}, restore : Archives, name : Names, backup : Dumps,
   object : {1, 2}, attempt : Nat]

LEMMA Agains ==
  ASSUME IInv, NEW s \in Scripts, script[s].pc \in {"put", "head"}, NEW retryable, Again(s, retryable)
  PROVE  \E r \in ScriptType :
           /\ Become(s, r) /\ script'[s] = r /\ r.pc \in {"put", "head", "report"}
           /\ r.name = script[s].name
           /\ r.pc \in {"put", "head"} => r.object = 1
           /\ r.pc = "report" => r.offsite = "failed"
<1>1. /\ script[s] \in ScriptType /\ script[s].restore \in Archives /\ script[s].name \in Names
      /\ script[s].backup \in Dumps /\ script[s].attempt \in Nat
  BY Fields DEF IInv
<1>2. CASE retryable /\ script[s].attempt < MaxAttempts
  <2> DEFINE r == [script[s] EXCEPT !.pc = "put", !.object = 1, !.attempt = @ + 1]
  <2>1. Become(s, r)
    BY <1>2 DEF Again
  <2>2. r \in ScriptType /\ r.pc = "put" /\ r.name = script[s].name /\ r.object = 1
    <3>1. script[s] \in Copying
      BY <1>1 DEF ScriptType, Copying
    <3>2. script[s].attempt + 1 \in Nat
      BY <1>1
    <3>3. r \in Copying /\ r.pc = "put" /\ r.name = script[s].name /\ r.object = 1
      BY <3>1, <3>2 DEF Copying
    <3> QED
      BY <3>3 DEF ScriptType, Copying
  <2> HIDE DEF r
  <2> QED
    BY <2>1, <2>2, Becomes DEF IInv
<1>3. CASE ~ (retryable /\ script[s].attempt < MaxAttempts)
  <2> DEFINE r == [pc |-> "report", restore |-> script[s].restore, name |-> script[s].name,
                   backup |-> script[s].backup, offsite |-> "failed"]
  <2>1. Become(s, r)
    BY <1>3 DEF Again, Ends
  <2>2. r \in ScriptType /\ r.pc = "report" /\ r.name = script[s].name /\ r.offsite = "failed"
    BY <1>1 DEF ScriptType
  <2> HIDE DEF r
  <2> QED
    BY <2>1, <2>2, Becomes DEF IInv
<1> QED
  BY <1>2, <1>3

LEMMA AgainStep ==
  ASSUME IInv, NEW s \in Scripts, script[s].pc \in {"put", "head"}, NEW retryable, Again(s, retryable),
         UNCHANGED <<now, host, lock, files, latest, database, harmed, runs>>, faults' \in Nat,
         remote' \in [Names \X {"file", "checksum"} -> Dumps \cup {None}], Kept
  PROVE  IInv'
<1>1. PICK r \in ScriptType :
        /\ Become(s, r) /\ script'[s] = r /\ r.pc \in {"put", "head", "report"}
        /\ r.name = script[s].name
        /\ r.pc \in {"put", "head"} => r.object = 1
        /\ r.pc = "report" => r.offsite = "failed"
  BY Agains
<1>2. Sent(s)'
  BY <1>1 DEF Sent, At
<1> QED
  BY <1>1, <1>2, CopyStep

\* What an object becomes when the backup is stored under its key, if nothing was there.
LEMMA Storing ==
  ASSUME IInv, NEW s \in Scripts, script[s].pc \in {"put", "head"},
         \/ UNCHANGED remote
         \/ remote' = [remote EXCEPT ![Key(s)] = IF @ = None THEN script[s].backup ELSE @]
  PROVE  Kept /\ remote' \in [Names \X {"file", "checksum"} -> Dumps \cup {None}]
<1>1. script[s].name \in Names /\ script[s].backup \in Dumps /\ script[s].object \in {1, 2}
  BY Fields DEF IInv
<1>2. Key(s) \in Names \X {"file", "checksum"}
  BY <1>1 DEF Key, Objects
<1>3. remote \in [Names \X {"file", "checksum"} -> Dumps \cup {None}]
  BY DEF IInv, TypeOK
<1> QED
  BY <1>1, <1>2, <1>3 DEF Kept

LEMMA PutStep ==
  ASSUME IInv, NEW s \in Scripts, Put(s)
  PROVE  IInv'
<1>1. /\ script[s].pc = "put" /\ Holds(s) /\ faults' \in Nat
      /\ UNCHANGED <<now, host, lock, files, latest, database, harmed, faults, runs>>
  BY DEF Put, At, Holds, IInv, TypeOK
<1>2. Kept /\ remote' \in [Names \X {"file", "checksum"} -> Dumps \cup {None}]
  BY <1>1, Storing DEF Put
<1>3. CASE Again(s, FALSE)
  BY <1>1, <1>2, <1>3, AgainStep
<1>4. CASE Goto(s, "head")
  <2>1. PICK r \in ScriptType :
          /\ Become(s, r) /\ script'[s] = r /\ r.pc = "head" /\ r.name = script[s].name
          /\ r.backup = script[s].backup /\ r.object = script[s].object
    BY <1>1, <1>4, Going
  <2>2. Sent(s) /\ script[s].name \in Names /\ script[s].backup # None
    BY <1>1, Fields, NoneAssumption DEF IInv, Sound
  <2>3. Sent(s)'
    BY <1>1, <1>2, <2>1, <2>2 DEF Sent, Kept, At
  <2> QED
    BY <1>1, <1>2, <2>1, <2>3, CopyStep
<1> QED
  BY <1>3, <1>4 DEF Put

LEMMA NoAnswerStep ==
  ASSUME IInv, NEW s \in Scripts, NoAnswer(s)
  PROVE  IInv'
<1>1. /\ script[s].pc \in {"put", "head"} /\ Again(s, TRUE) /\ Fault
      /\ UNCHANGED <<now, host, lock, files, latest, database, harmed, runs>>
  BY DEF NoAnswer
<1>2. faults' \in Nat
  BY <1>1, FaultType DEF IInv
<1>3. \/ remote' = remote
      \/ remote[Key(s)] = None /\ remote' = [remote EXCEPT ![Key(s)] = script[s].backup]
  <2> DEFINE stored == [remote EXCEPT ![Key(s)] = script[s].backup]
             lost == At(s, "put") /\ remote[Key(s)] = None /\ Mine(final, s) = script[s].backup
  <2>1. remote' \in {remote} \cup IF lost THEN {stored} ELSE {}
    BY DEF NoAnswer
  <2> HIDE DEF stored
  <2>2. CASE lost
    <3>1. remote[Key(s)] = None /\ (remote' = remote \/ remote' = stored)
      BY <2>1, <2>2
    <3> QED
      BY <3>1 DEF stored
  <2>3. CASE ~ lost
    <3>1. remote' = remote
      BY <2>1, <2>3
    <3> QED
      BY <3>1
  <2> QED
    BY <2>2, <2>3
<1>4. \/ UNCHANGED remote
      \/ remote' = [remote EXCEPT ![Key(s)] = IF @ = None THEN script[s].backup ELSE @]
  BY <1>3
<1>5. Kept /\ remote' \in [Names \X {"file", "checksum"} -> Dumps \cup {None}]
  BY <1>1, <1>4, Storing
<1> QED
  BY <1>1, <1>2, <1>5, AgainStep

LEMMA HeadObjectStep ==
  ASSUME IInv, NEW s \in Scripts, HeadObject(s)
  PROVE  IInv'
<1>1. /\ script[s].pc = "head" /\ Holds(s) /\ faults' \in Nat /\ UNCHANGED remote
      /\ UNCHANGED <<now, host, lock, files, latest, database, harmed, faults, runs>>
  BY DEF HeadObject, At, Holds, IInv, TypeOK
<1>2. Kept /\ remote' \in [Names \X {"file", "checksum"} -> Dumps \cup {None}]
  BY <1>1, Storing
<1>3. /\ script[s] \in ScriptType /\ script[s].restore \in Archives /\ script[s].name \in Names
      /\ script[s].backup \in Dumps /\ script[s].object \in {1, 2} /\ Sent(s)
  BY <1>1, Fields DEF IInv, Sound
<1>4. CASE Again(s, FALSE)
  BY <1>1, <1>2, <1>4, AgainStep
<1>5. CASE Same(s) /\ script[s].object = 1
  <2> DEFINE r == [script[s] EXCEPT !.pc = "put", !.object = @ + 1]
  <2>1. Become(s, r)
    BY <1>5 DEF HeadObject, Objects
  <2>2. /\ r \in ScriptType /\ r.pc = "put" /\ r.name = script[s].name
        /\ r.backup = script[s].backup
    <3>1. script[s] \in Copying
      BY <1>1, <1>3 DEF ScriptType, Copying
    <3>2. script[s].object + 1 \in {1, 2}
      BY <1>5
    <3>3. /\ r \in Copying /\ r.pc = "put" /\ r.name = script[s].name
          /\ r.backup = script[s].backup
      BY <3>1, <3>2 DEF Copying
    <3> QED
      BY <3>3 DEF ScriptType, Copying
  <2> HIDE DEF r
  <2>3. remote[<<script[s].name, "file">>] = script[s].backup
    BY <1>5 DEF Same, Key, Objects
  <2>4. script'[s] = r
    BY <2>1, Becomes DEF IInv
  <2>5. Sent(s)'
    BY <1>1, <2>2, <2>3, <2>4 DEF Sent, At
  <2> QED
    BY <1>1, <1>2, <2>1, <2>2, <2>5, CopyStep
<1>6. CASE Same(s) /\ script[s].object = 2
  <2> DEFINE r == [pc |-> "report", restore |-> script[s].restore, name |-> script[s].name,
                   backup |-> script[s].backup, offsite |-> "verified"]
  <2>1. Become(s, r)
    BY <1>6 DEF HeadObject, Objects, Ends
  <2>2. /\ r \in ScriptType /\ r.pc = "report" /\ r.name = script[s].name
        /\ r.backup = script[s].backup
    BY <1>3 DEF ScriptType
  <2> HIDE DEF r
  <2>3. /\ remote[<<script[s].name, "file">>] = script[s].backup
        /\ remote[<<script[s].name, "checksum">>] = script[s].backup
    BY <1>1, <1>3, <1>6 DEF Same, Key, Objects, Sent
  <2>4. script'[s] = r
    BY <2>1, Becomes DEF IInv
  <2>5. Sent(s)'
    BY <1>1, <2>2, <2>3, <2>4 DEF Sent, At
  <2> QED
    BY <1>1, <1>2, <2>1, <2>2, <2>5, CopyStep
<1> QED
  BY <1>3, <1>4, <1>5, <1>6 DEF HeadObject

LEMMA ReportStep ==
  ASSUME IInv, NEW s \in Scripts, Report(s)
  PROVE  IInv'
<1> DEFINE report == [name |-> script[s].name, backup |-> script[s].backup, offsite |-> script[s].offsite]
<1>1. /\ script[s].pc = "report" /\ Holds(s) /\ ~ Restoring(s) /\ ~ At(s, "load")
      /\ latest' = [latest EXCEPT ![host[s]] = report]
      /\ UNCHANGED <<now, host, final, checksum, remote, database, harmed, faults, runs>>
  BY DEF Report, At, Holds, Restoring
<1>2. /\ report \in Reported /\ report.name = script[s].name /\ report.backup = script[s].backup
      /\ report.offsite = script[s].offsite /\ host[s] \in Hosts
  BY <1>1, Fields DEF IInv, Reported
<1> HIDE DEF report
<1>3. Kept
  BY <1>1 DEF Kept
<1>4. Sound(s)
  BY DEF IInv
<1>5. latest' \in [Hosts -> Reported \cup {None}] /\ VerifiedIsOffsite'
  <2>1. latest \in [Hosts -> Reported \cup {None}] /\ VerifiedIsOffsite
    BY DEF IInv, TypeOK
  <2>2. report.offsite = "verified" =>
          \A o \in {"file", "checksum"} : remote[<<report.name, o>>] = report.backup
    BY <1>1, <1>2, <1>4 DEF Sound, Sent, At
  <2> QED
    BY <1>1, <1>2, <2>1, <2>2 DEF VerifiedIsOffsite
<1>6. PublishedIsWhole'
  BY <1>1, PublishedStays
<1>7. CASE Exit(s)
  <2>1. Become(s, Idle) /\ CleanUp(s)
    BY <1>7 DEF Exit
  <2>2. /\ part' \in Directory /\ lock' \subseteq LockDirectories
        /\ lock \ {LockOf(s)} \subseteq lock'
        /\ \A h \in Hosts : h # host[s] => part'[h] = part[h]
    BY <1>1, <2>1, CleanUps
  <2>3. \A t \in Scripts : t # s /\ Holds(t) => Undisturbed(t)
    BY <1>1, <2>2, Elsewhere
  <2>4. Sound(s)' /\ HalfIsLoading'
    BY <1>1, <2>1, IdleType, Becomes, AtRest, HalfStays DEF IInv
  <2> QED
    BY <1>1, <1>3, <1>5, <1>6, <2>1, <2>2, <2>3, <2>4, IdleType, ScriptStep DEF IInv, TypeOK,
       KeepsLock
<1>8. CASE Goto(s, "prune") /\ UNCHANGED <<part, lock>>
  <2>1. PICK r \in ScriptType :
          /\ Become(s, r) /\ script'[s] = r /\ r.pc = "prune" /\ r.name = script[s].name
    BY <1>1, <1>8, Going
  <2>2. Locked(s)' /\ Timely(s)'
    BY <1>1, <1>4, <1>8, <2>1, StillAtWork DEF Backing
  <2>3. DumpSound(s)' /\ Sent(s)'
    BY <1>1, <1>4, <1>8, <2>1 DEF Sound, DumpSound, Sent, At, Mine, Reliable, Published,
       Unpublished, Inspected
  <2>4. Sound(s)'
    BY <2>2, <2>3 DEF Sound
  <2>5. \A t \in Scripts : Undisturbed(t)
    BY <1>1, <1>8 DEF Undisturbed
  <2>6. HalfIsLoading'
    BY <1>1, <2>1, HalfStays
  <2> QED
    BY <1>1, <1>3, <1>5, <1>6, <1>8, <2>1, <2>4, <2>5, <2>6, ScriptStep DEF IInv, TypeOK,
       KeepsLock
<1> QED
  BY <1>7, <1>8 DEF Report, Fails

LEMMA Recents ==
  ASSUME NEW f \in Directory, NEW h \in Hosts
  PROVE  /\ Recent(f, h) \in Directory
         /\ \A g \in Hosts : g # h => Recent(f, h)[g] = f[g]
         /\ \A n \in Names : Recent(f, h)[h][n] = IF TooOld(n) THEN None ELSE f[h][n]
<1> DEFINE row == [n \in Names |-> IF TooOld(n) THEN None ELSE f[h][n]]
<1>1. /\ row \in [Names -> Dumps \cup {None}]
      /\ \A n \in Names : row[n] = IF TooOld(n) THEN None ELSE f[h][n]
  BY DEF Directory
<1>2. Recent(f, h) = [f EXCEPT ![h] = row]
  BY DEF Recent
<1> HIDE DEF row
<1>3. /\ Recent(f, h) \in Directory /\ Recent(f, h)[h] = row
      /\ \A g \in Hosts : g # h => Recent(f, h)[g] = f[g]
  BY <1>1, <1>2 DEF Directory
<1> QED
  BY <1>1, <1>3

LEMMA PruneStep ==
  ASSUME IInv, NEW s \in Scripts, Prune(s)
  PROVE  IInv'
<1>1. /\ script[s].pc = "prune" /\ Holds(s) /\ ~ Restoring(s) /\ ~ At(s, "load") /\ CleanUp(s)
      /\ final' = Recent(final, host[s]) /\ checksum' = Recent(checksum, host[s])
      /\ UNCHANGED <<now, host, remote, latest, database, harmed, faults, runs>>
  BY DEF Prune, At, Holds, Restoring
<1>2. Kept
  BY <1>1 DEF Kept
<1>3. final \in Directory /\ checksum \in Directory /\ host[s] \in Hosts
  BY Fields DEF IInv, TypeOK
<1>4. /\ final' \in Directory /\ checksum' \in Directory
      /\ \A h \in Hosts : h # host[s] => final'[h] = final[h] /\ checksum'[h] = checksum[h]
      /\ \A n \in Names : final'[host[s]][n] # None => final'[host[s]][n] = final[host[s]][n]
  BY <1>1, <1>3, Recents
<1>5. /\ part' \in Directory /\ lock' \subseteq LockDirectories
      /\ \A t \in Scripts : t # s /\ Holds(t) => Undisturbed(t)
  BY <1>1, <1>4, CleanUps, Elsewhere
<1>6. PublishedIsWhole'
  BY <1>1, <1>4 DEF IInv, PublishedIsWhole, Reliable
<1>7. PICK r \in ScriptType : Become(s, r) /\ r.pc \in {"idle", "relock"}
  <2>1. CASE script[s].restore = None
    BY <2>1, IdleType DEF Prune
  <2>2. CASE script[s].restore # None
    <3> DEFINE r == [pc |-> "relock", restore |-> script[s].restore, name |-> script[s].name]
    <3>1. Become(s, r)
      BY <2>2 DEF Prune
    <3>2. script[s].restore \in Archives /\ script[s].name \in Names
      BY <1>1, Fields DEF IInv
    <3>3. r \in ScriptType /\ r.pc = "relock"
      BY <3>2 DEF ScriptType
    <3> HIDE DEF r
    <3> QED
      BY <3>1, <3>3
  <2> QED
    BY <2>1, <2>2
<1>8. Sound(s)' /\ HalfIsLoading' /\ VerifiedIsOffsite'
  BY <1>1, <1>2, <1>7, Becomes, AtRest, HalfStays, ReportsStay DEF IInv
<1> QED
  BY <1>1, <1>2, <1>4, <1>5, <1>6, <1>7, <1>8, ScriptStep DEF IInv, TypeOK, KeepsLock

-----------------------------------------------------------------------------
(* A restore.                                                                *)

LEMMA RelockStep ==
  ASSUME IInv, NEW s \in Scripts, Relock(s)
  PROVE  IInv'
<1>1. /\ script[s].pc = "relock" /\ ~ At(s, "load") /\ host[s] \in Hosts
      /\ UNCHANGED <<now, host, part, final, checksum, remote, latest, database, harmed, faults, runs>>
  BY Fields DEF Relock, At, files, IInv
<1>2. Kept
  BY <1>1 DEF Kept
<1>3. CASE RestoreLock(host[s]) \in lock
  <2>1. Become(s, Idle) /\ UNCHANGED lock
    BY <1>3 DEF Relock
  <2>2. Sound(s)'
    BY <2>1, IdleType, Becomes, AtRest DEF IInv
  <2> QED
    BY <1>1, <1>2, <2>1, <2>2, IdleType, QuietStep DEF IInv, TypeOK, KeepsLock
<1>4. CASE RestoreLock(host[s]) \notin lock
  <2> DEFINE r == [script[s] EXCEPT !.pc = "drop"]
  <2>1. Become(s, r) /\ lock' = lock \cup {RestoreLock(host[s])}
    BY <1>4 DEF Relock, Goto
  <2>2. r \in ScriptType /\ r.pc = "drop"
    <3>1. script[s] \in ScriptType
      BY DEF IInv, TypeOK
    <3> QED
      BY <1>1, <3>1 DEF ScriptType
  <2> HIDE DEF r
  <2>3. script'[s] = r
    BY <2>1, Becomes DEF IInv
  <2>4. LockOf(s)' = RestoreLock(host[s]) /\ LockOf(s)' \notin lock
    BY <1>1, <1>4, <2>2, <2>3 DEF LockOf, Restoring, RestoreLock, BackupLock
  <2>8. Sound(s)'
    BY <2>1, <2>2, <2>3, <2>4 DEF Sound, Locked, DumpSound, Sent, Timely, At, Published,
       Unpublished, Inspected, Backing
  <2>5. \A t \in Scripts : Undisturbed(t)
    BY <1>1, <2>1 DEF Undisturbed
  <2>6. HalfIsLoading' /\ VerifiedIsOffsite' /\ PublishedIsWhole'
    BY <1>1, <1>2, <2>1, HalfStays, ReportsStay, PublishedStays
  <2>7. lock' \subseteq LockDirectories
    BY <2>1, LockType DEF IInv, TypeOK
  <2> QED
    BY <1>1, <1>2, <2>1, <2>2, <2>4, <2>5, <2>6, <2>7, <2>8, ScriptStep DEF IInv, TypeOK,
       KeepsLock
<1> QED
  BY <1>3, <1>4

LEMMA DropStep ==
  ASSUME IInv, NEW s \in Scripts, Drop(s)
  PROVE  IInv'
<1>1. /\ script[s].pc = "drop" /\ Holds(s) /\ Restoring(s) /\ Goto(s, "load") /\ host[s] \in Hosts
      /\ database' = [database EXCEPT ![host[s]] = "half"]
      /\ UNCHANGED <<now, host, lock, part, final, checksum, remote, latest, harmed, faults, runs>>
  BY Fields DEF Drop, At, Holds, Restoring, files, IInv
<1>2. Kept
  BY <1>1 DEF Kept
<1>3. PICK r \in ScriptType : Become(s, r) /\ script'[s] = r /\ r.pc = "load"
  BY <1>1, Going
<1>4. /\ database' \in [Hosts -> {"serving", "half"}]
      /\ \A h \in Hosts : h # host[s] => database'[h] = database[h]
  BY <1>1 DEF IInv, TypeOK
<1>5. \A t \in Scripts : t # s => script'[t] = script[t]
  BY <1>3 DEF Become, IInv, TypeOK
<1>6. HalfIsLoading'
  <2> SUFFICES ASSUME NEW h \in Hosts, h \notin harmed, database'[h] = "half"
               PROVE  \E t \in Scripts : host[t] = h /\ script'[t].pc = "load"
    BY <1>1 DEF HalfIsLoading, At
  <2>1. CASE h = host[s]
    BY <1>3, <2>1
  <2>2. CASE h # host[s]
    <3>1. PICK t \in Scripts : host[t] = h /\ script[t].pc = "load"
      BY <1>4, <2>2 DEF IInv, HalfIsLoading, At
    <3> QED
      BY <1>5, <2>2, <3>1
  <2> QED
    BY <2>1, <2>2
<1>7. Sound(s)'
  <2>1. Sound(s)
    BY DEF IInv
  <2>2. LockOf(s)' = LockOf(s)
    BY <1>1, <1>3, SameLock
  <2> QED
    BY <1>1, <1>3, <2>1, <2>2 DEF Sound, Locked, DumpSound, Sent, Timely, At, Published,
       Unpublished, Inspected, Backing
<1>8. \A t \in Scripts : Undisturbed(t)
  BY <1>1 DEF Undisturbed
<1>9. VerifiedIsOffsite' /\ PublishedIsWhole'
  BY <1>1, <1>2, ReportsStay, PublishedStays
<1> QED
  BY <1>1, <1>2, <1>3, <1>4, <1>6, <1>7, <1>8, <1>9, ScriptStep DEF IInv, TypeOK, KeepsLock

\* A script that was loading leaves a database that serves, or harm behind.
LEMMA HalfEnds ==
  ASSUME IInv, NEW s \in Scripts, NEW r, Become(s, r), UNCHANGED host, harmed \subseteq harmed',
         \A h \in Hosts : h # host[s] \/ ~ At(s, "load") => database'[h] = database[h],
         At(s, "load") => database'[host[s]] = "serving" \/ host[s] \in harmed'
  PROVE  HalfIsLoading'
<1> SUFFICES ASSUME NEW h \in Hosts, h \notin harmed', database'[h] = "half"
             PROVE  \E t \in Scripts : host[t] = h /\ script'[t].pc = "load"
  BY DEF HalfIsLoading, At
<1>1. \A t \in Scripts : t # s => script'[t] = script[t]
  BY DEF Become, IInv, TypeOK
<1>2. database[h] = "half" /\ ~ (At(s, "load") /\ h = host[s])
  OBVIOUS
<1>3. PICK t \in Scripts : host[t] = h /\ script[t].pc = "load"
  BY <1>2 DEF IInv, HalfIsLoading, At
<1> QED
  BY <1>1, <1>2, <1>3 DEF At

LEMMA LoadStep ==
  ASSUME IInv, NEW s \in Scripts, Load(s)
  PROVE  IInv'
<1>1. /\ At(s, "load") /\ Holds(s) /\ Exit(s) /\ Become(s, Idle) /\ host[s] \in Hosts
      /\ UNCHANGED <<now, host, final, checksum, remote, latest, faults, runs>>
  BY Fields DEF Load, At, Holds, Exit, IInv
<1>2. \/ database' = [database EXCEPT ![host[s]] = "serving"] /\ UNCHANGED harmed
      \/ harmed' = harmed \cup {host[s]} /\ UNCHANGED database
  BY DEF Load
<1>3. /\ database' \in [Hosts -> {"serving", "half"}] /\ harmed \subseteq harmed' /\ harmed' \subseteq Hosts
      /\ \A h \in Hosts : h # host[s] => database'[h] = database[h]
      /\ database'[host[s]] = "serving" \/ host[s] \in harmed'
  BY <1>1, <1>2 DEF IInv, TypeOK
<1>4. HalfIsLoading'
  BY <1>1, <1>3, HalfEnds
<1> QED
  BY <1>1, <1>3, <1>4, ExitStep DEF IInv, TypeOK

-----------------------------------------------------------------------------
(* What happens to scripts and files.                                        *)

LEMMA Ended ==
  ASSUME IInv, NEW s \in Scripts, harmed' = harmed \cup HalfWay(s), UNCHANGED <<host, database>>,
         Become(s, Idle)
  PROVE  harmed \subseteq harmed' /\ harmed' \subseteq Hosts /\ HalfIsLoading'
<1>1. harmed \subseteq harmed' /\ harmed' \subseteq Hosts /\ (At(s, "load") => host[s] \in harmed')
  BY Fields DEF IInv, TypeOK, HalfWay
<1> QED
  BY <1>1, HalfEnds

\* A script ends and leaves all as it is.
LEMMA LeaveStep ==
  ASSUME IInv, NEW s \in Scripts, harmed' = harmed \cup HalfWay(s), Become(s, Idle), faults' \in Nat,
         UNCHANGED <<now, host, lock, files, remote, latest, database, runs>>
  PROVE  IInv'
<1>1. harmed \subseteq harmed' /\ harmed' \subseteq Hosts /\ HalfIsLoading'
  BY Ended
<1>2. UNCHANGED <<part, final, checksum>> /\ Kept
  BY DEF files, Kept
<1>3. Sound(s)'
  BY IdleType, Becomes, AtRest DEF IInv
<1>4. \A t \in Scripts : Undisturbed(t)
  BY <1>2 DEF Undisturbed
<1>5. VerifiedIsOffsite' /\ PublishedIsWhole'
  BY <1>1, <1>2, ReportsStay, PublishedStays
<1> QED
  BY <1>1, <1>2, <1>3, <1>4, <1>5, IdleType, ScriptStep DEF IInv, TypeOK, KeepsLock

LEMMA InterruptStep ==
  ASSUME IInv, NEW s \in Scripts, Interrupt(s)
  PROVE  IInv'
<1>1. /\ harmed' = harmed \cup HalfWay(s) /\ Fault
      /\ UNCHANGED <<now, host, final, checksum, remote, latest, database, runs>>
  BY DEF Interrupt
<1>2. faults' \in Nat
  BY <1>1, FaultType DEF IInv
<1>3. CASE Holds(s)
  <2>1. Exit(s) /\ Become(s, Idle)
    BY <1>3 DEF Interrupt, Exit
  <2>2. harmed \subseteq harmed' /\ harmed' \subseteq Hosts /\ HalfIsLoading'
    BY <1>1, <2>1, Ended
  <2> QED
    BY <1>1, <1>2, <1>3, <2>1, <2>2, ExitStep DEF IInv, TypeOK
<1>4. CASE ~ Holds(s)
  <2>1. Become(s, Idle) /\ UNCHANGED <<part, lock>>
    BY <1>4 DEF Interrupt
  <2> QED
    BY <1>1, <1>2, <2>1, LeaveStep DEF files
<1> QED
  BY <1>3, <1>4

LEMMA KillStep ==
  ASSUME IInv, NEW s \in Scripts, Kill(s)
  PROVE  IInv'
<1>1. faults' \in Nat
  BY FaultType DEF Kill, IInv
<1> QED
  BY <1>1, LeaveStep DEF Kill

LEMMA RemoveLockStep ==
  ASSUME IInv, NEW l \in lock, RemoveLock(l)
  PROVE  IInv'
<1>1. /\ \A s \in Scripts : Holds(s) => LockOf(s) # l
      /\ lock' = lock \ {l}
      /\ UNCHANGED <<now, host, script, part, final, checksum, remote, latest, database, harmed, faults, runs>>
  BY DEF RemoveLock, files
<1>2. TypeOK'
  BY <1>1 DEF IInv, TypeOK
<1>3. Kept
  BY <1>1 DEF Kept
<1>4. \A t \in Scripts : Sound(t)'
  BY <1>1, <1>3, OthersStay DEF Undisturbed
<1>5. VerifiedIsOffsite' /\ PublishedIsWhole'
  BY <1>1, <1>3, ReportsStay, PublishedStays
<1>6. Exclusive' /\ HalfIsLoading'
  BY <1>1 DEF IInv, Exclusive, HalfIsLoading, Holds, At, LockOf, Restoring, BackupLock,
     RestoreLock
<1> QED
  BY <1>2, <1>4, <1>5, <1>6 DEF IInv

Damaged(f, h, n) == [f EXCEPT ![h][n].is = "damaged"]

\* A file that is damaged is still there.
LEMMA Damages ==
  ASSUME NEW f \in Directory, NEW h \in Hosts, NEW n \in Names, f[h][n] # None
  PROVE  /\ Damaged(f, h, n) \in Directory
         /\ \A k \in Hosts : k # h => Damaged(f, h, n)[k] = f[k]
         /\ \A k \in Hosts, m \in Names : Damaged(f, h, n)[k][m] = None <=> f[k][m] = None
<1> DEFINE dump == [f[h][n] EXCEPT !.is = "damaged"]
           row == [f[h] EXCEPT ![n] = dump]
<1>1. f[h] \in [Names -> Dumps \cup {None}] /\ f[h][n] \in Dumps
  BY DEF Directory
<1>2. dump \in Dumps
  BY <1>1 DEF Dumps
<1>3. Damaged(f, h, n) = [f EXCEPT ![h] = row]
  BY DEF Damaged
<1> HIDE DEF dump
<1>4. row \in [Names -> Dumps \cup {None}] /\ \A m \in Names : row[m] = None <=> f[h][m] = None
  BY <1>1, <1>2, NoneAssumption
<1> HIDE DEF row
<1> QED
  BY <1>3, <1>4 DEF Directory

LEMMA DamageStep ==
  ASSUME IInv, NEW h \in Hosts, NEW n \in Names, Damage(h, n)
  PROVE  IInv'
<1>1. /\ harmed' = harmed \cup {h} /\ Fault
      /\ UNCHANGED <<now, host, script, lock, checksum, remote, latest, database, runs>>
      /\ \/ final[h][n] # None /\ final' = Damaged(final, h, n) /\ UNCHANGED part
         \/ part[h][n] # None /\ part' = Damaged(part, h, n) /\ UNCHANGED final
  BY DEF Damage, Damaged
<1>2. part \in Directory /\ final \in Directory
  BY DEF IInv, TypeOK
<1>3. /\ part' \in Directory /\ final' \in Directory
      /\ \A k \in Hosts : k # h => part'[k] = part[k] /\ final'[k] = final[k]
      /\ \A k \in Hosts, m \in Names :
           (part'[k][m] = None <=> part[k][m] = None) /\ (final'[k][m] = None <=> final[k][m] = None)
  <2>1. CASE final[h][n] # None /\ final' = Damaged(final, h, n) /\ UNCHANGED part
    <3>1. /\ final' \in Directory /\ \A k \in Hosts : k # h => final'[k] = final[k]
          /\ \A k \in Hosts, m \in Names : final'[k][m] = None <=> final[k][m] = None
      BY <1>2, <2>1, Damages
    <3>2. part' = part
      BY <2>1
    <3> QED
      BY <1>2, <3>1, <3>2
  <2>2. CASE part[h][n] # None /\ part' = Damaged(part, h, n) /\ UNCHANGED final
    <3>1. /\ part' \in Directory /\ \A k \in Hosts : k # h => part'[k] = part[k]
          /\ \A k \in Hosts, m \in Names : part'[k][m] = None <=> part[k][m] = None
      BY <1>2, <2>2, Damages
    <3>2. final' = final
      BY <2>2
    <3> QED
      BY <1>2, <3>1, <3>2
  <2> QED
    BY <1>1, <2>1, <2>2
<1>4. faults' \in Nat
  BY <1>1, FaultType DEF IInv
<1>5. TypeOK'
  BY <1>1, <1>3, <1>4 DEF IInv, TypeOK
<1>6. Kept
  BY <1>1 DEF Kept
<1>7. ASSUME NEW t \in Scripts
      PROVE  Sound(t)'
  <2>1. CASE host[t] # h
    <3>1. host[t] \in Hosts
      BY Fields DEF IInv
    <3>2. Holds(t) => Undisturbed(t)
      BY <1>1, <1>3, <2>1, <3>1 DEF Undisturbed
    <3> QED
      BY <1>1, <1>6, <3>2, OthersStay
  <2>2. CASE host[t] = h
    <3>1. Sound(t) /\ (script[t].pc \notin {"idle", "lock"} => script[t].name \in Names)
      BY Fields DEF IInv
    <3>2. DumpSound(t)'
      <4>1. host[t] \in Hosts /\ host[t] \notin Reliable'
        BY <1>1, <2>2, Fields DEF Reliable, IInv
      <4> QED
        BY <1>1, <1>3, <3>1, <4>1 DEF Sound, DumpSound, At, Mine, Published, Unpublished,
           Inspected
    <3>3. Locked(t)' /\ Sent(t)' /\ Timely(t)'
      <4>1. LockOf(t)' = LockOf(t)
        BY <1>1, SameLock DEF Restoring
      <4> QED
        BY <1>1, <3>1, <4>1 DEF Sound, Locked, Sent, Timely, Holds, At
    <3> QED
      BY <3>2, <3>3 DEF Sound
  <2> QED
    BY <2>1, <2>2
<1>8. Exclusive' /\ HalfIsLoading'
  BY <1>1 DEF IInv, Exclusive, HalfIsLoading, Holds, At, LockOf, Restoring, BackupLock,
     RestoreLock
<1>9. VerifiedIsOffsite'
  BY <1>1, <1>6, ReportsStay
<1>10. PublishedIsWhole'
  BY <1>1, <1>3 DEF IInv, PublishedIsWhole, Reliable
<1> QED
  BY <1>5, <1>7, <1>8, <1>9, <1>10 DEF IInv

LEMMA TickStep ==
  ASSUME IInv, Tick
  PROVE  IInv'
<1>1. /\ now < MaxTime /\ now' = now + 1
      /\ \A s \in Scripts : Holds(s) => now - script[s].name < RetentionDays
      /\ UNCHANGED <<host, script, lock, part, final, checksum, remote, latest, database, harmed, faults, runs>>
  BY DEF Tick, files
<1>2. now \in 0..MaxTime /\ MaxTime \in Nat /\ RetentionDays \in Nat
  BY BackupAssumption DEF IInv, TypeOK, Names
<1>3. TypeOK'
  <2>1. now' \in Names
    BY <1>1, <1>2 DEF Names
  <2> QED
    BY <1>1, <2>1 DEF IInv, TypeOK
<1>4. ASSUME NEW s \in Scripts
      PROVE  Sound(s)'
  <2>1. Sound(s)
    BY DEF IInv
  <2>2. Locked(s)' /\ DumpSound(s)' /\ Sent(s)'
    BY <1>1, <2>1 DEF Sound, Locked, DumpSound, Sent, Holds, At, Mine, Reliable, LockOf,
       Restoring, BackupLock, RestoreLock
  <2>3. Timely(s)'
    <3> SUFFICES ASSUME script[s].pc \in Backing
                 PROVE  script[s].name <= now + 1 /\ (now + 1) - script[s].name <= RetentionDays
      BY <1>1 DEF Timely
    <3>1. Holds(s) /\ script[s].name \in 0..MaxTime
      BY Fields DEF Holds, Backing, IInv, Names
    <3>2. script[s].name <= now /\ now - script[s].name < RetentionDays
      BY <1>1, <2>1, <3>1 DEF Sound, Timely
    <3> QED
      BY <1>2, <3>1, <3>2
  <2> QED
    BY <2>2, <2>3 DEF Sound
<1>5. Exclusive' /\ HalfIsLoading'
  BY <1>1 DEF IInv, Exclusive, HalfIsLoading, Holds, At, LockOf, Restoring, BackupLock,
     RestoreLock
<1>6. Kept
  BY <1>1 DEF Kept
<1>7. VerifiedIsOffsite' /\ PublishedIsWhole'
  BY <1>1, <1>6, ReportsStay, PublishedStays
<1> QED
  BY <1>3, <1>4, <1>5, <1>7 DEF IInv

-----------------------------------------------------------------------------
(* The theorems.                                                             *)

LEMMA NextPreserves == IInv /\ [Next]_vars => IInv'
<1> SUFFICES ASSUME IInv, [Next]_vars
             PROVE  IInv'
  OBVIOUS
<1>1. CASE UNCHANGED vars
  <2>1. UNCHANGED <<now, host, script, lock, part, final, checksum, remote, latest, database,
                    harmed, faults, runs>>
    BY <1>1 DEF vars, files
  <2> QED
    BY <2>1 DEF IInv, TypeOK, Exclusive, HalfIsLoading, Sound, Locked, DumpSound, Sent, Timely,
       VerifiedIsOffsite, PublishedIsWhole, Reliable, Holds, At, Mine, LockOf, Restoring,
       BackupLock, RestoreLock
<1>2. ASSUME NEW s \in Scripts, Step(s)
      PROVE  IInv'
  <2>1. ASSUME NEW n \in Names \cup {None}, Begin(s, n)
        PROVE  IInv'
    BY <2>1, BeginStep DEF Archives
  <2>2. ASSUME NEW is \in {"whole", "cut"}, Encrypt(s, is)
        PROVE  IInv'
    BY <2>2, EncryptStep
  <2>3. CASE TakeLock(s) \/ Validate(s) \/ Move(s) \/ Sum(s)
    BY <2>3, TakeLockStep, ValidateStep, MoveStep, SumStep
  <2>4. CASE Inspect(s) \/ Put(s) \/ NoAnswer(s) \/ HeadObject(s) \/ Report(s)
    BY <2>4, InspectStep, PutStep, NoAnswerStep, HeadObjectStep, ReportStep
  <2>5. CASE Prune(s) \/ Relock(s) \/ Drop(s) \/ Load(s)
    BY <2>5, PruneStep, RelockStep, DropStep, LoadStep
  <2>6. CASE Interrupt(s) \/ Kill(s)
    BY <2>6, InterruptStep, KillStep
  <2> QED
    BY <1>2, <2>1, <2>2, <2>3, <2>4, <2>5, <2>6 DEF Step
<1>3. ASSUME NEW l \in lock, RemoveLock(l)
      PROVE  IInv'
  BY <1>3, RemoveLockStep
<1>4. ASSUME NEW h \in Hosts, NEW n \in Names, Damage(h, n)
      PROVE  IInv'
  BY <1>4, DamageStep
<1>5. CASE Tick
  BY <1>5, TickStep
<1> QED
  BY <1>1, <1>2, <1>3, <1>4, <1>5 DEF Next

\* No two scripts at work hold one lock directory, however often one is killed and its lock
\* removed; with it all that the other theorems need: dumps, parts and copies are as whole as
\* the place of the script says (backup-postgres.sh, restore-postgres.sh, replicateBackup).
THEOREM BackupInvariant == Spec => []IInv
<1> QED
  BY InitEstablishes, NextPreserves, PTL DEF Spec

\* What a report calls verified is in the bucket, both objects of it and for good, whoever else
\* stored under its name (transferObject and main, replicate-backup-s3.mjs).
THEOREM VerifiedStaysOffsite == Spec => []VerifiedIsOffsite
<1>1. IInv => VerifiedIsOffsite
  BY DEF IInv
<1> QED
  BY <1>1, BackupInvariant, PTL

\* Where nothing was damaged and backups and restores lock the same directory, whatever is
\* published is the whole of a database (backup-postgres.sh, restore-postgres.sh).
THEOREM OnlyWholeIsPublished == Spec => []PublishedIsWhole
<1>1. IInv => PublishedIsWhole
  BY DEF IInv
<1> QED
  BY <1>1, BackupInvariant, PTL

LEMMA MoveKeepsOne ==
  ASSUME IInv, NEW s \in Scripts, Move(s), NEW h \in Hosts, Restorable(h)
  PROVE  Restorable(h)'
<1>1. /\ script[s].pc = "move" /\ final' = In(final, s, Mine(part, s)) /\ UNCHANGED checksum
      /\ part \in Directory /\ final \in Directory
  BY DEF Move, At, IInv, TypeOK
<1>2. Mine(final, s) = None /\ Mine(part, s) \in Dumps \cup {None}
  BY <1>1, Mines DEF IInv, Sound, DumpSound, Unpublished
<1>3. PICK n \in Names :
        final[h][n] # None /\ final[h][n].is = "whole" /\ checksum[h][n] = final[h][n]
  BY DEF Restorable
<1>4. h # host[s] \/ n # script[s].name
  BY <1>2, <1>3 DEF Mine
<1>5. final'[h][n] = final[h][n]
  BY <1>1, <1>2, <1>4, Mines DEF IInv
<1> QED
  BY <1>1, <1>3, <1>5 DEF Restorable

LEMMA SumKeepsOne ==
  ASSUME IInv, NEW s \in Scripts, Sum(s), NEW h \in Hosts, Restorable(h)
  PROVE  Restorable(h)'
<1>1. /\ script[s].pc = "checksum" /\ checksum' = In(checksum, s, Mine(final, s)) /\ UNCHANGED final
      /\ checksum \in Directory /\ final \in Directory
  BY DEF Sum, At, files, IInv, TypeOK
<1>2. Mine(final, s) \in Dumps \cup {None}
  BY <1>1, Mines DEF IInv
<1>3. PICK n \in Names :
        final[h][n] # None /\ final[h][n].is = "whole" /\ checksum[h][n] = final[h][n]
  BY DEF Restorable
<1>4. checksum'[h][n] = final[h][n]
  <2>1. CASE h = host[s] /\ n = script[s].name
    BY <1>1, <1>2, <2>1, Mines DEF IInv, Mine
  <2>2. CASE h # host[s] \/ n # script[s].name
    BY <1>1, <1>2, <1>3, <2>2, Mines DEF IInv
  <2> QED
    BY <2>1, <2>2
<1> QED
  BY <1>1, <1>3, <1>4 DEF Restorable

\* The backup that a prune ends is restorable, and too young to be pruned itself.
LEMMA PruneKeepsOne ==
  ASSUME IInv, NEW s \in Scripts, Prune(s), NEW h \in Hosts, Restorable(h), h \in Reliable'
  PROVE  Restorable(h)'
<1>1. /\ script[s].pc = "prune" /\ Holds(s) /\ harmed' = harmed /\ host[s] \in Hosts
      /\ final' = Recent(final, host[s]) /\ checksum' = Recent(checksum, host[s])
      /\ final \in Directory /\ checksum \in Directory
  BY Fields DEF Prune, At, Holds, IInv, TypeOK
<1>2. CASE h # host[s]
  <2>1. final'[h] = final[h] /\ checksum'[h] = checksum[h]
    BY <1>1, <1>2, Recents
  <2> QED
    BY <2>1 DEF Restorable
<1>3. CASE h = host[s]
  <2>1. script[s].name \in Names /\ h \in Reliable
    BY <1>1, HoldsName DEF IInv, Reliable
  <2>2. ~ TooOld(script[s].name)
    <3>1. Sound(s) /\ now \in 0..MaxTime /\ MaxTime \in Nat /\ RetentionDays \in Nat
      BY BackupAssumption DEF IInv, TypeOK, Names
    <3>2. now - script[s].name <= RetentionDays
      BY <1>1, <3>1 DEF Sound, Timely, Backing
    <3> QED
      BY <2>1, <3>1, <3>2 DEF TooOld, Names
  <2>3. /\ final[h][script[s].name] # None /\ final[h][script[s].name].is = "whole"
        /\ checksum[h][script[s].name] = final[h][script[s].name]
    BY <1>1, <1>3, <2>1 DEF IInv, Sound, DumpSound, Mine, Published, Inspected, PublishedIsWhole
  <2>4. /\ final'[h][script[s].name] = final[h][script[s].name]
        /\ checksum'[h][script[s].name] = checksum[h][script[s].name]
    BY <1>1, <1>3, <2>1, <2>2, Recents
  <2> QED
    BY <2>1, <2>3, <2>4 DEF Restorable
<1> QED
  BY <1>2, <1>3

LEMMA DamageKeepsOthers ==
  ASSUME IInv, NEW g \in Hosts, NEW m \in Names, Damage(g, m), NEW h \in Hosts, Restorable(h),
         h \in Reliable'
  PROVE  Restorable(h)'
<1>1. /\ h # g /\ UNCHANGED checksum /\ final \in Directory
      /\ UNCHANGED final \/ (final[g][m] # None /\ final' = Damaged(final, g, m))
  BY DEF Damage, Damaged, Reliable, IInv, TypeOK
<1>2. final'[h] = final[h]
  BY <1>1, Damages
<1> QED
  BY <1>1, <1>2 DEF Restorable

\* A restorable host stays one in every step that removes or replaces a file.
LEMMA StaysRestorable ==
  ASSUME IInv, [Next]_vars, <<final, checksum>>' # <<final, checksum>>, NEW h \in Reliable',
         Restorable(h)
  PROVE  Restorable(h)'
<1>1. h \in Hosts
  BY DEF Reliable
<1>2. ASSUME NEW s \in Scripts, Move(s) \/ Sum(s) \/ Prune(s)
      PROVE  Restorable(h)'
  BY <1>1, <1>2, MoveKeepsOne, SumKeepsOne, PruneKeepsOne
<1>3. ASSUME NEW g \in Hosts, NEW m \in Names, Damage(g, m)
      PROVE  Restorable(h)'
  BY <1>1, <1>3, DamageKeepsOthers
<1>4. ASSUME NEW s \in Scripts, Step(s), ~ Move(s), ~ Sum(s), ~ Prune(s)
      PROVE  FALSE
  BY <1>4 DEF Step, Begin, TakeLock, Encrypt, Validate, Inspect, Put, NoAnswer, HeadObject,
              Report, Relock, Drop, Load, Interrupt, Kill, files
<1>5. ~ Tick /\ \A l \in lock : ~ RemoveLock(l)
  BY DEF Tick, RemoveLock, files
<1> QED
  BY <1>2, <1>3, <1>4, <1>5 DEF Next, vars, files

\* A host that has had a backup to restore from, with its checksum, keeps one, where nothing is
\* damaged and backups and restores lock the same directory: the prune that ends a backup never
\* takes the last (backup-postgres.sh).
THEOREM OneBackupIsKept == Spec => OneIsKept
<1>1. IInv /\ [Next]_vars =>
        [\A h \in Reliable' : Restorable(h) => Restorable(h)']_<<final, checksum>>
  BY StaysRestorable
<1> QED
  BY <1>1, BackupInvariant, PTL DEF Spec, OneIsKept

-----------------------------------------------------------------------------
(* The bootstrap: what a run writes, and in what order.                      *)

Listed(o) == Identity!Files(o)
Given == Identity!Options

\* The environment file is written last.
LEMMA EnvironmentLast ==
  ASSUME NEW o \in Given
  PROVE  /\ Len(Listed(o)) \in Nat \ {0} /\ DOMAIN Listed(o) = 1 .. Len(Listed(o))
         /\ Listed(o)[Len(Listed(o))] = ".env"
         /\ \A i \in 1 .. Len(Listed(o)) - 1 : Listed(o)[i] # ".env"
         /\ \A i \in 1 .. Len(Listed(o)) : Listed(o)[i] \in Identity!Names
<1> DEFINE Others == Identity!Names \ {".env"}
           first == IF o.kms THEN << >> ELSE <<"private_key">>
           second == <<"keyring", "tokens", "s3_credentials">>
           third == IF o.storage = "none" THEN << >> ELSE <<"attestation_key", "attestation_keyring">>
           fourth == <<"tls_ca", "tls_cert">>
           most == first \o second \o third \o fourth
<1>1. {"private_key", "keyring", "tokens", "s3_credentials", "attestation_key",
       "attestation_keyring", "tls_ca", "tls_cert"} \subseteq Others
  BY DEF Identity!Names, Identity!Signing, Identity!Attestation
<1>2. ".env" \in Identity!Names
  BY DEF Identity!Names
<1> HIDE DEF Others
<1>3. first \in Seq(Others) /\ second \in Seq(Others) /\ third \in Seq(Others) /\ fourth \in Seq(Others)
  <2>1. "private_key" \in Others /\ "keyring" \in Others /\ "tokens" \in Others
          /\ "s3_credentials" \in Others /\ "attestation_key" \in Others
          /\ "attestation_keyring" \in Others /\ "tls_ca" \in Others /\ "tls_cert" \in Others
    BY <1>1
  <2>2. first \in Seq(Others)
    BY <2>1
  <2>3. second \in Seq(Others)
    BY <2>1
  <2>4. third \in Seq(Others)
    BY <2>1
  <2>5. fourth \in Seq(Others)
    BY <2>1
  <2> QED
    BY <2>2, <2>3, <2>4, <2>5
<1>4. Listed(o) = most \o <<".env">>
  BY DEF Listed, Identity!Files, Identity!Tls
<1> HIDE DEF first, second, third, fourth
<1>5. first \o second \in Seq(Others)
  BY <1>3
<1>6. (first \o second) \o third \in Seq(Others)
  BY <1>3, <1>5
<1>7. most \in Seq(Others)
  BY <1>3, <1>6
<1> HIDE DEF most
<1>8. /\ Len(most) \in Nat /\ \A i \in 1 .. Len(most) : most[i] \in Others
      /\ Len(Listed(o)) = Len(most) + 1 /\ DOMAIN Listed(o) = 1 .. Len(most) + 1
      /\ \A i \in 1 .. Len(most) : Listed(o)[i] = most[i]
      /\ Listed(o)[Len(most) + 1] = ".env"
  BY <1>4, <1>7
<1> QED
  BY <1>2, <1>8 DEF Others

-----------------------------------------------------------------------------
(* The inductive invariant.                                                  *)

Writers == Runs \cup {"operator", None}

BundleTypeOK ==
  /\ bundle \in [Identity!Environments -> [Identity!Names -> Writers]]
  /\ options \in [Runs -> Offered \cup {None}]
  /\ run \in [Runs -> {"new", "check", "write", "ended"}]
  /\ next \in [Runs -> Nat]

\* A run that goes on has its options, and its next file is one of its own.
RunsSound ==
  \A r \in Runs :
    /\ run[r] # "new" => options[r] \in Offered
    /\ run[r] \in {"new", "check"} => next[r] = 1
    /\ run[r] = "write" => next[r] \in 1 .. Len(Listed(options[r]))

\* As long as a run writes, what it has written is there.
WrittenThere ==
  \A r \in Runs : run[r] = "write" =>
    \A i \in 1 .. next[r] - 1 : bundle[options[r].environment][Listed(options[r])[i]] = r

\* An environment file is of a run that ended well, all of whose files are there.
Stands(e, w) ==
  /\ w \in Runs /\ run[w] = "ended" /\ options[w] \in Offered
  /\ \A n \in Identity!Targets(options[w]) : bundle[e][n] = w

EnvironmentsStand ==
  \A e \in Identity!Environments : bundle[e][".env"] # None => Stands(e, bundle[e][".env"])

IdentityInv == BundleTypeOK /\ RunsSound /\ WrittenThere /\ EnvironmentsStand

LEMMA OptionsOf ==
  ASSUME NEW o \in Offered
  PROVE  o \in Given /\ o.environment \in Identity!Environments
  BY IdentityAssumption DEF Given, Identity!Environments

LEMMA TargetsListed ==
  ASSUME NEW o \in Given
  PROVE  /\ Identity!Targets(o) = {Listed(o)[i] : i \in 1 .. Len(Listed(o))}
         /\ Identity!Targets(o) \subseteq Identity!Names
         /\ ".env" \in Identity!Targets(o)
<1>1. Identity!Targets(o) = {Listed(o)[i] : i \in 1 .. Len(Listed(o))}
  BY EnvironmentLast DEF Identity!Targets, Listed
<1> QED
  BY <1>1, EnvironmentLast

LEMMA IdentityInit ==
  ASSUME Identity!Init
  PROVE  IdentityInv
  BY DEF Identity!Init, IdentityInv, BundleTypeOK, RunsSound, WrittenThere, EnvironmentsStand,
     Writers, Identity!Names

\* A step that leaves the files alone, and what the runs that write have written.
LEMMA FilesAlone ==
  ASSUME IdentityInv, UNCHANGED bundle, BundleTypeOK', RunsSound',
         \A r \in Runs : run[r] = "ended" => run'[r] = "ended" /\ options'[r] = options[r],
         \A r \in Runs : run'[r] = "write" =>
           \/ next'[r] = 1
           \/ run[r] = "write" /\ next'[r] = next[r] /\ options'[r] = options[r]
  PROVE  IdentityInv'
<1>1. WrittenThere'
  BY DEF IdentityInv, WrittenThere
<1>2. EnvironmentsStand'
  BY DEF IdentityInv, EnvironmentsStand, Stands
<1> QED
  BY <1>1, <1>2 DEF IdentityInv

LEMMA BeginRunKeeps ==
  ASSUME IdentityInv, NEW r \in Runs, NEW o \in Offered, Identity!Begin(r, o)
  PROVE  IdentityInv'
<1>1. /\ run[r] = "new" /\ options' = [options EXCEPT ![r] = o] /\ run' = [run EXCEPT ![r] = "check"]
      /\ UNCHANGED <<next, bundle>>
  BY DEF Identity!Begin
<1>2. BundleTypeOK'
  BY <1>1 DEF IdentityInv, BundleTypeOK
<1>3. RunsSound'
  BY <1>1 DEF IdentityInv, BundleTypeOK, RunsSound
<1> QED
  BY <1>1, <1>2, <1>3, FilesAlone DEF IdentityInv, BundleTypeOK

LEMMA CheckRunKeeps ==
  ASSUME IdentityInv, NEW r \in Runs, Identity!Check(r)
  PROVE  IdentityInv'
<1>1. /\ run[r] = "check" /\ UNCHANGED <<next, bundle, options>>
      /\ \E pc \in {"ended", "write"} : run' = [run EXCEPT ![r] = pc]
  BY DEF Identity!Check
<1>2. BundleTypeOK'
  BY <1>1 DEF IdentityInv, BundleTypeOK
<1>3. RunsSound'
  <2>1. next[r] = 1 /\ options[r] \in Offered
    BY <1>1 DEF IdentityInv, RunsSound
  <2>2. 1 \in 1 .. Len(Listed(options[r]))
    BY <2>1, OptionsOf, EnvironmentLast
  <2> QED
    BY <1>1, <2>1, <2>2 DEF IdentityInv, BundleTypeOK, RunsSound
<1>4. \A q \in Runs : q # r => run'[q] = run[q]
  BY <1>1 DEF IdentityInv, BundleTypeOK
<1>5. next[r] = 1
  BY <1>1 DEF IdentityInv, RunsSound
<1> QED
  BY <1>1, <1>2, <1>3, <1>4, <1>5, FilesAlone

LEMMA RunEndsKeeps ==
  ASSUME IdentityInv, NEW r \in Runs, run[r] = "write", run' = [run EXCEPT ![r] = "ended"],
         UNCHANGED <<next, bundle, options>>
  PROVE  IdentityInv'
<1>1. BundleTypeOK'
  BY DEF IdentityInv, BundleTypeOK
<1>2. RunsSound'
  BY DEF IdentityInv, BundleTypeOK, RunsSound
<1>3. run'[r] = "ended" /\ \A q \in Runs : q # r => run'[q] = run[q]
  BY DEF IdentityInv, BundleTypeOK
<1> QED
  BY <1>1, <1>2, <1>3, FilesAlone

\* What is there stays as it is.
BundleKept ==
  \A e \in Identity!Environments, n \in Identity!Names :
    bundle[e][n] # None => bundle'[e][n] = bundle[e][n]

LEMMA StandsStays ==
  ASSUME BundleKept, NEW e \in Identity!Environments, NEW w, Stands(e, w),
         options'[w] = options[w], run'[w] = "ended"
  PROVE  Stands(e, w)'
<1>1. w \in Runs /\ w # None
  BY IdentityAssumption DEF Stands
<1>2. options[w] \in Offered /\ options[w] \in Given
  BY OptionsOf DEF Stands
<1>3. Identity!Targets(options[w]) \subseteq Identity!Names
  BY <1>2, TargetsListed
<1>4. \A n \in Identity!Targets(options[w]) : bundle'[e][n] = w
  BY <1>1, <1>3 DEF Stands, BundleKept
<1>5. Identity!Targets(options'[w]) = Identity!Targets(options[w])
  OBVIOUS
<1> QED
  BY <1>1, <1>2, <1>4, <1>5 DEF Stands

LEMMA WriteRunKeeps ==
  ASSUME IdentityInv, NEW r \in Runs, Identity!Write(r)
  PROVE  IdentityInv'
<1> DEFINE o == options[r]
           e == o.environment
           k == next[r]
           n == Listed(o)[k]
<1>1. /\ run[r] = "write" /\ o \in Offered /\ o \in Given /\ e \in Identity!Environments
      /\ k \in 1 .. Len(Listed(o)) /\ k \in Nat
  <2>1. run[r] = "write"
    BY DEF Identity!Write, Identity!Writing
  <2> QED
    BY <2>1, OptionsOf, EnvironmentLast DEF IdentityInv, RunsSound
<1>2. n \in Identity!Names /\ ".env" \in Identity!Names
  BY <1>1, EnvironmentLast DEF Identity!Names
<1>3. CASE Identity!Collides(e, n)
  <2>1. run' = [run EXCEPT ![r] = "ended"] /\ UNCHANGED <<next, bundle, options>>
    BY <1>3 DEF Identity!Write, Listed
  <2> QED
    BY <1>1, <2>1, RunEndsKeeps
<1>4. CASE ~ Identity!Collides(e, n)
  <2>1. /\ bundle[e][n] = None /\ bundle' = [bundle EXCEPT ![e][n] = r]
        /\ run' = [run EXCEPT ![r] = IF n = ".env" THEN "ended" ELSE @]
        /\ next' = [next EXCEPT ![r] = @ + 1] /\ options' = options
    BY <1>4 DEF Identity!Write, Listed, Identity!Collides, Identity!Exists
  <2>2. /\ bundle \in [Identity!Environments -> [Identity!Names -> Writers]]
        /\ run \in [Runs -> {"new", "check", "write", "ended"}] /\ next \in [Runs -> Nat]
        /\ options \in [Runs -> Offered \cup {None}] /\ r \in Writers
    BY DEF IdentityInv, BundleTypeOK, Writers
  <2> HIDE DEF n, k, e, o
  <2>3. /\ BundleKept /\ bundle'[e][n] = r
        /\ bundle' \in [Identity!Environments -> [Identity!Names -> Writers]]
        /\ \A f \in Identity!Environments, m \in Identity!Names :
             bundle'[f][m] = bundle[f][m] \/ (f = e /\ m = n)
    BY <1>1, <1>2, <2>1, <2>2 DEF BundleKept
  <2>4. /\ run' \in [Runs -> {"new", "check", "write", "ended"}] /\ next' \in [Runs -> Nat]
        /\ run'[r] = (IF n = ".env" THEN "ended" ELSE "write") /\ next'[r] = k + 1
        /\ \A q \in Runs : q # r => run'[q] = run[q] /\ next'[q] = next[q]
    BY <1>1, <2>1, <2>2 DEF k
  <2>5. BundleTypeOK'
    BY <2>1, <2>2, <2>3, <2>4 DEF BundleTypeOK
  <2>6. /\ n = ".env" => k = Len(Listed(o))
        /\ n # ".env" => k + 1 \in 1 .. Len(Listed(o))
    <3>1. /\ Len(Listed(o)) \in Nat \ {0} /\ Listed(o)[Len(Listed(o))] = ".env"
          /\ \A i \in 1 .. Len(Listed(o)) - 1 : Listed(o)[i] # ".env"
      BY <1>1, EnvironmentLast
    <3> QED
      BY <1>1, <3>1 DEF n
  <2>7. RunsSound'
    <3>1. ASSUME NEW q \in Runs, q # r
          PROVE  /\ run'[q] # "new" => options'[q] \in Offered
                 /\ run'[q] \in {"new", "check"} => next'[q] = 1
                 /\ run'[q] = "write" => next'[q] \in 1 .. Len(Listed(options'[q]))
      BY <2>1, <2>4, <3>1 DEF IdentityInv, RunsSound
    <3>2. /\ options'[r] \in Offered /\ run'[r] \notin {"new", "check"}
          /\ run'[r] = "write" => next'[r] \in 1 .. Len(Listed(options'[r]))
      BY <1>1, <2>1, <2>4, <2>6 DEF o
    <3> QED
      BY <3>1, <3>2 DEF RunsSound
  <2>8. WrittenThere'
    <3> SUFFICES ASSUME NEW q \in Runs, run'[q] = "write", NEW i \in 1 .. next'[q] - 1
                 PROVE  bundle'[options[q].environment][Listed(options[q])[i]] = q
      BY <2>1 DEF WrittenThere
    <3>1. run[q] = "write" /\ options[q] \in Offered /\ next[q] \in 1 .. Len(Listed(options[q]))
      BY <1>1, <2>4 DEF IdentityInv, RunsSound
    <3>2. options[q].environment \in Identity!Environments /\ q # None
            /\ \A j \in 1 .. Len(Listed(options[q])) : Listed(options[q])[j] \in Identity!Names
            /\ Len(Listed(options[q])) \in Nat
      BY <3>1, OptionsOf, EnvironmentLast, IdentityAssumption
    <3>3. CASE i \in 1 .. next[q] - 1
      <4>1. bundle[options[q].environment][Listed(options[q])[i]] = q
        BY <3>1, <3>3 DEF IdentityInv, WrittenThere
      <4>2. i \in 1 .. Len(Listed(options[q]))
        BY <3>1, <3>2, <3>3
      <4> QED
        BY <2>3, <3>2, <4>1, <4>2 DEF BundleKept
    <3>4. CASE i \notin 1 .. next[q] - 1
      <4>1. q = r /\ i = k
        BY <2>2, <2>4, <3>4 DEF k
      <4> QED
        BY <2>3, <4>1 DEF e, n, o
    <3> QED
      BY <3>3, <3>4
  <2>9. EnvironmentsStand'
    <3> SUFFICES ASSUME NEW f \in Identity!Environments, bundle'[f][".env"] # None
                 PROVE  Stands(f, bundle[f][".env"])'
      BY DEF EnvironmentsStand
    <3>1. CASE bundle[f][".env"] # None
      <4> DEFINE w == bundle[f][".env"]
      <4>1. Stands(f, w) /\ bundle'[f][".env"] = w
        BY <1>2, <2>3, <3>1 DEF IdentityInv, EnvironmentsStand, BundleKept
      <4>2. w \in Runs /\ w # r /\ run'[w] = "ended" /\ options'[w] = options[w]
        BY <1>1, <2>1, <2>4, <4>1 DEF Stands
      <4>3. PICK x : x = w
        OBVIOUS
      <4>4. Stands(f, x)'
        BY <2>3, <4>1, <4>2, <4>3, StandsStays
      <4> QED
        BY <4>1, <4>3, <4>4
    <3>2. CASE bundle[f][".env"] = None
      <4>1. f = e /\ n = ".env"
        BY <1>2, <2>3, <3>2
      <4>2. bundle'[f][".env"] = r /\ run'[r] = "ended" /\ options'[r] = o
        BY <2>1, <2>3, <2>4, <4>1 DEF o
      <4>3. k = Len(Listed(o)) /\ \A i \in 1 .. k - 1 : bundle[e][Listed(o)[i]] = r
        BY <1>1, <2>6, <4>1 DEF IdentityInv, WrittenThere, e, o, k
      <4>4. \A i \in 1 .. k : bundle'[e][Listed(o)[i]] = r
        <5> SUFFICES ASSUME NEW i \in 1 .. k PROVE bundle'[e][Listed(o)[i]] = r
          OBVIOUS
        <5>1. CASE i = k
          BY <2>3, <5>1 DEF n
        <5>2. CASE i # k
          <6>1. i \in 1 .. k - 1 /\ i \in 1 .. Len(Listed(o))
            BY <1>1, <4>3, <5>2
          <6>2. Listed(o)[i] \in Identity!Names /\ r # None
            BY <1>1, <6>1, EnvironmentLast, IdentityAssumption
          <6> QED
            BY <1>1, <2>3, <4>3, <6>1, <6>2 DEF BundleKept
        <5> QED
          BY <5>1, <5>2
      <4>5. \A m \in Identity!Targets(o) : bundle'[e][m] = r
        BY <1>1, <4>3, <4>4, TargetsListed
      <4>6. Identity!Targets(options'[r]) = Identity!Targets(o)
        BY <4>2
      <4>7. Stands(f, r)'
        BY <1>1, <4>1, <4>2, <4>5, <4>6 DEF Stands
      <4> QED
        BY <4>1, <4>2, <4>7
    <3> QED
      BY <3>1, <3>2
  <2> QED
    BY <2>5, <2>7, <2>8, <2>9 DEF IdentityInv
<1> QED
  BY <1>3, <1>4

\* While the operator works on an environment no run writes to it.
LEMMA QuietRuns ==
  ASSUME NEW e, Identity!Quiet(e), NEW r \in Runs, run[r] = "write"
  PROVE  options[r].environment # e
  BY DEF Identity!Quiet

LEMMA ClearKeeps ==
  ASSUME IdentityInv, NEW e \in Identity!Environments, Identity!Clear(e)
  PROVE  IdentityInv'
<1>1. /\ bundle' = [bundle EXCEPT ![e] = [n \in Identity!Names |-> None]]
      /\ UNCHANGED <<options, run, next>>
  BY DEF Identity!Clear
<1>2. bundle \in [Identity!Environments -> [Identity!Names -> Writers]] /\ None \in Writers
  BY DEF IdentityInv, BundleTypeOK, Writers
<1>3. /\ bundle' \in [Identity!Environments -> [Identity!Names -> Writers]]
      /\ \A f \in Identity!Environments : f # e => bundle'[f] = bundle[f]
      /\ bundle'[e] = [n \in Identity!Names |-> None]
  BY <1>1, <1>2
<1>4. BundleTypeOK' /\ RunsSound'
  BY <1>1, <1>3 DEF IdentityInv, BundleTypeOK, RunsSound
<1>5. WrittenThere'
  <2> SUFFICES ASSUME NEW r \in Runs, run[r] = "write", NEW i \in 1 .. next[r] - 1
               PROVE  bundle'[options[r].environment][Listed(options[r])[i]] = r
    BY <1>1 DEF WrittenThere
  <2>1. options[r].environment # e /\ options[r].environment \in Identity!Environments
    BY QuietRuns, OptionsOf DEF Identity!Clear, IdentityInv, RunsSound
  <2> QED
    BY <1>3, <2>1 DEF IdentityInv, WrittenThere
<1>6. EnvironmentsStand'
  <2> SUFFICES ASSUME NEW f \in Identity!Environments, bundle'[f][".env"] # None
               PROVE  Stands(f, bundle[f][".env"])'
    BY DEF EnvironmentsStand
  <2>1. f # e
    BY <1>3 DEF Identity!Names
  <2>2. bundle'[f] = bundle[f] /\ Stands(f, bundle[f][".env"])
    BY <1>3, <2>1 DEF IdentityInv, EnvironmentsStand
  <2> QED
    BY <1>1, <2>2 DEF Stands
<1> QED
  BY <1>4, <1>5, <1>6 DEF IdentityInv

LEMMA EditKeeps ==
  ASSUME IdentityInv, NEW e \in Identity!Environments, NEW storage, NEW region, NEW owner,
         Identity!Edit(e, storage, region, owner)
  PROVE  IdentityInv'
<1>1. /\ bundle' = [bundle EXCEPT ![e] = [n \in Identity!Names |->
           IF n \in Identity!Attestation /\ @[n] = None /\ storage # "none" THEN "operator" ELSE @[n]]]
      /\ UNCHANGED <<options, run, next>>
  BY DEF Identity!Edit
<1>2. /\ bundle \in [Identity!Environments -> [Identity!Names -> Writers]]
      /\ "operator" \in Writers
  BY DEF IdentityInv, BundleTypeOK, Writers
<1>3. bundle' \in [Identity!Environments -> [Identity!Names -> Writers]]
  BY <1>1, <1>2
<1>4. BundleKept
  BY <1>1, <1>2 DEF BundleKept
<1>5. \A f \in Identity!Environments : bundle'[f][".env"] = bundle[f][".env"]
  BY <1>1, <1>2 DEF Identity!Attestation, Identity!Names
<1>6. BundleTypeOK' /\ RunsSound'
  BY <1>1, <1>3 DEF IdentityInv, BundleTypeOK, RunsSound
<1>7. WrittenThere'
  <2> SUFFICES ASSUME NEW r \in Runs, run[r] = "write", NEW i \in 1 .. next[r] - 1
               PROVE  bundle'[options[r].environment][Listed(options[r])[i]] = r
    BY <1>1 DEF WrittenThere
  <2>1. options[r] \in Offered /\ next[r] \in 1 .. Len(Listed(options[r])) /\ r # None
    BY IdentityAssumption DEF IdentityInv, RunsSound
  <2>2. /\ options[r].environment \in Identity!Environments /\ Len(Listed(options[r])) \in Nat
        /\ \A j \in 1 .. Len(Listed(options[r])) : Listed(options[r])[j] \in Identity!Names
    BY <2>1, OptionsOf, EnvironmentLast
  <2>3. i \in 1 .. Len(Listed(options[r]))
    BY <2>1, <2>2
  <2>4. bundle[options[r].environment][Listed(options[r])[i]] = r
    BY DEF IdentityInv, WrittenThere
  <2> QED
    BY <1>4, <2>1, <2>2, <2>3, <2>4 DEF BundleKept
<1>8. EnvironmentsStand'
  <2> SUFFICES ASSUME NEW f \in Identity!Environments, bundle'[f][".env"] # None
               PROVE  Stands(f, bundle[f][".env"])'
    BY DEF EnvironmentsStand
  <2>1. PICK w : w = bundle[f][".env"]
    OBVIOUS
  <2>2. Stands(f, w) /\ bundle'[f][".env"] = w
    BY <1>5, <2>1 DEF IdentityInv, EnvironmentsStand
  <2>3. options'[w] = options[w] /\ run'[w] = "ended"
    BY <1>1, <2>2 DEF Stands
  <2>4. Stands(f, w)'
    BY <1>4, <2>2, <2>3, StandsStays
  <2> QED
    BY <2>2, <2>4
<1> QED
  BY <1>6, <1>7, <1>8 DEF IdentityInv

LEMMA UntouchedKeeps ==
  ASSUME IdentityInv, UNCHANGED <<bundle, options, run, next>>
  PROVE  IdentityInv'
  BY DEF IdentityInv, BundleTypeOK, RunsSound, WrittenThere, EnvironmentsStand, Stands

LEMMA IdentityStep ==
  ASSUME IdentityInv, [Identity!Next]_Identity!vars
  PROVE  IdentityInv'
<1>1. CASE UNCHANGED Identity!vars
  BY <1>1, UntouchedKeeps DEF Identity!vars
<1>2. ASSUME NEW r \in Runs, Identity!Bootstrap(r) PROVE IdentityInv'
  <2>1. CASE Identity!Stop(r)
    BY <2>1, RunEndsKeeps DEF Identity!Stop, Identity!Writing
  <2> QED
    BY <1>2, <2>1, BeginRunKeeps, CheckRunKeeps, WriteRunKeeps DEF Identity!Bootstrap
<1>3. ASSUME NEW e \in Identity!Environments, Identity!Operate(e) PROVE IdentityInv'
  <2>1. ASSUME NEW testing, NEW unreachable, Identity!Preflight(e, testing, unreachable)
        PROVE  IdentityInv'
    BY <2>1, UntouchedKeeps DEF Identity!Preflight
  <2>2. CASE Identity!Up(e)
    BY <2>2, UntouchedKeeps DEF Identity!Up
  <2> QED
    BY <1>3, <2>1, <2>2, ClearKeeps, EditKeeps DEF Identity!Operate
<1> QED
  BY <1>1, <1>2, <1>3 DEF Identity!Next

-----------------------------------------------------------------------------
(* The theorems of the bootstrap.                                            *)

\* The inductive invariant holds for any number of runs and whatever options they have.
THEOREM IdentityInvariant == Identity!Spec => []IdentityInv
<1>1. Identity!Init => IdentityInv
  BY IdentityInit
<1>2. IdentityInv /\ [Identity!Next]_Identity!vars => IdentityInv'
  BY IdentityStep
<1> QED
  BY <1>1, <1>2, PTL DEF Identity!Spec

\* An environment file stands for a complete identity of one run, whatever other
\* runs did at the time and wherever they were stopped.
THEOREM EnvironmentsAreWhole == Identity!Spec => []WholeByOneRun
<1>1. IdentityInv => WholeByOneRun
  BY DEF IdentityInv, EnvironmentsStand, Stands, WholeByOneRun, Identity!WholeByOneRun,
     Identity!Exists
<1> QED
  BY <1>1, IdentityInvariant, PTL
=============================================================================
