--------------------------- MODULE ChannelConfig ---------------------------
(***************************************************************************)
(* The channels of a deployment: the configuration file, the table in the  *)
(* database (internal/config/channels.go, internal/store/sqlite), the set  *)
(* the router delivers with (internal/router), and those who change them:  *)
(* the start of the process (cmd/notifyrelay/main.go), administrators      *)
(* (internal/admin/channels.go), the reload on SIGHUP (reload.go) and the  *)
(* operator with an editor or a SQLite client.                             *)
(*                                                                         *)
(* Credentials are sealed in the table with a key that is configured or    *)
(* generated on the first start (internal/config/keys.go).  Every access   *)
(* of the store is a step, and the process may die between any two.        *)
(***************************************************************************)
EXTENDS Integers, FiniteSets

CONSTANTS
  Admins,      \* administrators, each with one request
  Hup,         \* the goroutine that handles SIGHUP
  Names,       \* names of channel instances
  Kinds,       \* types of channels
  Registered,  \* those this binary has
  Credential,  \* by type, its private parameter, "none" if it has none
  Hosts,       \* all other parameters of a channel, taken together
  Misfits,     \* those that schema or constructor refuse
  Secrets,     \* values of credentials
  KeyConfigured, \* keys an operator may configure
  Generated,   \* bound: the keys that starts generate, in order
  Settings,    \* the other reloadable settings, taken together
  Requests,    \* what an administrator may ask for
  Files,       \* what the configuration file may say
  HandRows,    \* what an operator writes with a SQLite client
  MaxMishaps,  \* bound: failed accesses, callers that leave, crashes
  MaxEdits     \* bound: edits of the file, edits by hand, signals

Configs ==
  [kind : Kinds, on : BOOLEAN, host : Hosts, secret : Secrets \cup {"none"}]
Absent  == [kind |-> "none", on |-> FALSE, host |-> "none", secret |-> "none"]
Tables  == [Names -> Configs \cup {Absent}]

Keys == KeyConfigured \cup {Generated[i] : i \in DOMAIN Generated}

ASSUME ConfigAssumption ==
  /\ Hup \notin Admins /\ IsFiniteSet(Names)
  /\ "none" \notin Kinds \cup Hosts \cup Secrets
  /\ "keep" \notin Secrets
  /\ Registered \subseteq Kinds /\ DOMAIN Credential = Kinds
  /\ Requests \subseteq
       [do : {"save", "delete"}, name : Names, cfg : Configs,
        keep : BOOLEAN, create : BOOLEAN, replace : BOOLEAN]
  /\ Files \subseteq
       [valid : BOOLEAN, key : KeyConfigured \cup {"none"}, settings : Settings,
        channels : Tables]
  /\ HandRows \subseteq Configs \cup {Absent}
  /\ "none" \notin Keys
  /\ MaxMishaps \in Nat /\ MaxEdits \in Nat

VARIABLES
  table, sealed,     \* channel_instances: rows, and the keys their credentials
                     \*   are sealed with
  marker,            \* MetaChannelsImported
  keyfile, made,     \* keys/secret.key; how many keys have been generated
  file,              \* the configuration file
  phase, using, key, left, \* run(): how far, cfg, secret_key, channels to import
  settings, live,    \* what requests and deliveries are served with
  op, pc, mine, snap, over, reply, trail,  \* saveChannel, deleteChannel, reload
  mishaps, edits,
  ver, liveVer, snapVer,  \* which state of the table was read and is live
  last,              \* what was last asked to be stored
  missed, overtaken, touched  \* a reload failed or is due; an older read was
                     \*   installed over a newer; a row was written by hand

disk    == <<table, sealed, marker, keyfile, made>>
process == <<phase, using, key, left, settings, live>>
locals  == <<pc, mine, snap, over, reply, trail>>
bounds  == <<mishaps, edits>>
history == <<ver, liveVer, snapVer, last, missed, overtaken, touched>>
vars    == <<disk, file, process, op, locals, bounds, history>>

-----------------------------------------------------------------------------
Actors == Admins \cup {Hup}
Steps  == {"idle", "reading", "merging", "putting", "deleting", "recording",
           "loading", "installing", "done"}
Phases == {"down", "keys", "naming", "import", "load", "serving"}
Replies == {"none", "failed", "conflict", "invalid", "missing", "stored", "live"}

Nothing == [n \in Names |-> Absent]

TypeOK ==
  /\ table \in Tables /\ sealed \in [Names -> Keys \cup {"none"}]
  /\ marker \in BOOLEAN /\ keyfile \in Keys \cup {"none"} /\ made \in {0} \cup DOMAIN Generated
  /\ file \in Files
  /\ phase \in Phases /\ using \in Files /\ key \in Keys \cup {"none"}
  /\ left \subseteq Names /\ settings \in Settings /\ live \in Tables
  /\ op \in [Admins -> Requests] /\ pc \in [Actors -> Steps]
  /\ mine \in [Admins -> Configs \cup {Absent}] /\ snap \in [Actors -> Tables]
  /\ over \in [Actors -> BOOLEAN] /\ reply \in [Actors -> Replies]
  /\ trail \subseteq Admins
  /\ mishaps \in 0..MaxMishaps /\ edits \in 0..MaxEdits
  /\ ver \in Nat /\ liveVer \in Nat /\ snapVer \in [Actors -> Nat]
  /\ last \in Tables
  /\ missed \in BOOLEAN /\ overtaken \in BOOLEAN /\ touched \in BOOLEAN

Init ==
  /\ table = Nothing /\ sealed = [n \in Names |-> "none"]
  /\ marker = FALSE /\ keyfile = "none" /\ made = 0
  /\ file \in Files /\ using = file
  /\ phase = "down" /\ key = "none" /\ left = {}
  /\ settings = file.settings /\ live = Nothing
  /\ op \in [Admins -> Requests]
  /\ pc = [a \in Actors |-> "idle"] /\ mine = [a \in Admins |-> Absent]
  /\ snap = [a \in Actors |-> Nothing] /\ over = [a \in Actors |-> FALSE]
  /\ reply = [a \in Actors |-> "none"] /\ trail = {}
  /\ mishaps = 0 /\ edits = 0
  /\ ver = 0 /\ liveVer = 0 /\ snapVer = [a \in Actors |-> 0]
  /\ last = Nothing /\ missed = FALSE /\ overtaken = FALSE /\ touched = FALSE

-----------------------------------------------------------------------------
(* What is in a row, and what is made of it.                               *)

(* validateChannel and buildSet: the type is known, its schema and its     *)
(* constructor accept the parameters.                                      *)
Runs(c) ==
  /\ c.kind \in Registered /\ c.host \notin Misfits
  /\ Credential[c.kind] # "none" => c.secret # "none"

(* buildSet skips what is disabled, and builds all of the rest or nothing. *)
Builds(t) == \A n \in Names : t[n].on => Runs(t[n])
Part(t)   == [n \in Names |-> IF t[n].on THEN t[n] ELSE Absent]

(* open: a sealed value needs the key it was sealed with.                  *)
Opens(n) == sealed[n] \in {"none", key}

Sealing(c) == IF c.secret = "none" THEN "none" ELSE key

(* PutChannel.                                                             *)
Write(n, c, by) ==
  /\ table' = [table EXCEPT ![n] = c] /\ sealed' = [sealed EXCEPT ![n] = by]
  /\ ver' = ver + 1

(* Whether the store answers.                                              *)
Access(ok) ==
  IF ok THEN UNCHANGED mishaps ELSE mishaps < MaxMishaps /\ mishaps' = mishaps + 1

-----------------------------------------------------------------------------
(* run: the start of the process.                                          *)

InFile(f) == {n \in Names : f.channels[n] # Absent}

Start ==
  /\ phase = "down" /\ file.valid
  /\ \A n \in InFile(file) : file.channels[n].on => file.channels[n].kind \in Registered
  /\ phase' = "keys" /\ using' = file /\ left' = InFile(file)
  /\ settings' = file.settings
  /\ UNCHANGED <<disk, file, key, live, op, locals, bounds, history>>

(* ResolveKey: configured, on disk, or generated.                          *)
ResolveKey ==
  /\ phase = "keys"
  /\ IF using.key # "none" \/ keyfile # "none"
     THEN /\ key' = IF using.key # "none" THEN using.key ELSE keyfile
          /\ phase' = "import" /\ UNCHANGED made
     ELSE /\ made + 1 \in DOMAIN Generated /\ made' = made + 1
          /\ key' = Generated[made + 1]
          /\ phase' = "naming"
  /\ UNCHANGED <<table, sealed, marker, keyfile, file, using, left, settings, live,
                 op, locals, bounds, history>>

(* Slip: the start goes on although the key was not written.               *)
NameKeyOrNot ==
  /\ phase = "naming"
  /\ \/ keyfile' = key /\ phase' = "import"
     \/ phase' = "import" /\ UNCHANGED keyfile
  /\ UNCHANGED <<table, sealed, marker, made, file, using, key, left, settings,
                 live, op, locals, bounds, history>>

(* writeKeyFile: the key is there under its name, whole, or it is not.     *)
NameKey ==
  /\ phase = "naming"
  /\ keyfile' = key /\ phase' = "import"
  /\ UNCHANGED <<table, sealed, marker, made, file, using, key, left, settings,
                 live, op, locals, bounds, history>>

(* Slip: that the file was imported is inferred from the table.            *)
DueIfEmpty == table = Nothing /\ InFile(using) # {}

(* ImportOnce: the file is read while the table has not been seeded.       *)
Due == ~marker /\ InFile(using) # {}

SkipImport ==
  /\ phase = "import" /\ left = InFile(using) /\ ~Due
  /\ phase' = "load"
  /\ UNCHANGED <<disk, file, using, key, left, settings, live, op, locals, bounds,
                 history>>

(* The order in the file is left open.                                     *)
ImportOne(n, ok) ==
  /\ phase = "import" /\ n \in left /\ (left = InFile(using) => Due)
  /\ Access(ok)
  /\ IF ok /\ using.channels[n].kind \in Registered
     THEN /\ Write(n, using.channels[n], Sealing(using.channels[n]))
          /\ left' = left \ {n} /\ UNCHANGED phase
     ELSE phase' = "down" /\ UNCHANGED <<table, sealed, ver, left>>
  /\ UNCHANGED <<marker, keyfile, made, file, using, key, settings, live, op,
                 locals, edits, liveVer, snapVer, last, missed, overtaken, touched>>

(* The marker is written last.  What the table is to be from now on is     *)
(* what the file said, and what administrators make of it.                 *)
Mark(ok) ==
  /\ phase = "import" /\ left = {} /\ InFile(using) # {}
  /\ Access(ok)
  /\ IF ok THEN /\ marker' = TRUE /\ phase' = "load"
                /\ last' = [n \in Names |-> IF n \in InFile(using)
                                            THEN using.channels[n] ELSE table[n]]
     ELSE phase' = "down" /\ UNCHANGED <<marker, last>>
  /\ UNCHANGED <<table, sealed, keyfile, made, file, using, key, left, settings,
                 live, op, locals, edits, ver, liveVer, snapVer, missed, overtaken,
                 touched>>

(* Load and router.New; whoever could write is not yet listening.          *)
Serve(ok) ==
  /\ phase = "load"
  /\ Access(ok)
  /\ IF ok /\ Builds(table) /\ \A n \in Names : Opens(n)
     THEN /\ phase' = "serving" /\ live' = Part(table) /\ liveVer' = ver
          /\ missed' = FALSE /\ overtaken' = FALSE /\ touched' = FALSE
     ELSE phase' = "down" /\ UNCHANGED <<live, liveVer, missed, overtaken, touched>>
  /\ UNCHANGED <<disk, file, using, key, left, settings, op, locals, edits, ver,
                 snapVer, last>>

-----------------------------------------------------------------------------
(* saveChannel and deleteChannel.                                          *)

Goto(a, step) == pc' = [pc EXCEPT ![a] = step]

Answer(a, r) ==
  reply' = [reply EXCEPT ![a] = r] /\ Goto(a, IF a = Hup THEN "idle" ELSE "done")

(* A read of one row, for a caller who is still there.                     *)
Got(a, ok) == ok /\ ~over[a] /\ Opens(op[a].name)

Begin(a) ==
  /\ phase = "serving" /\ pc[a] = "idle"
  /\ Goto(a, IF op[a].do = "save" THEN "reading" ELSE "deleting")
  /\ UNCHANGED <<disk, file, process, op, mine, snap, over, reply, trail, bounds,
                 history>>

(* The browser goes away: the context of the request is over.              *)
Leave(a) ==
  /\ pc[a] \notin {"idle", "done"} /\ ~over[a]
  /\ mishaps < MaxMishaps /\ mishaps' = mishaps + 1
  /\ over' = [over EXCEPT ![a] = TRUE]
  /\ UNCHANGED <<disk, file, process, op, pc, mine, snap, reply, trail, edits,
                 history>>

(* A form that means to create and names a channel that is there.          *)
Read(a, ok) ==
  /\ pc[a] = "reading"
  /\ Access(ok)
  /\ IF ~Got(a, ok) THEN Answer(a, "failed")
     ELSE IF table[op[a].name] # Absent /\ op[a].create /\ ~op[a].replace
     THEN Answer(a, "conflict")
     ELSE Goto(a, "merging") /\ UNCHANGED reply
  /\ UNCHANGED <<disk, file, process, op, mine, snap, over, trail, edits, history>>

(* MergeEdit: a credential that is not mentioned is the stored one, if the *)
(* parameter of that name is.                                              *)
Merged(a) ==
  LET old == table[op[a].name] IN
  IF op[a].keep /\ old # Absent /\ Credential[old.kind] = Credential[op[a].cfg.kind]
  THEN [op[a].cfg EXCEPT !.secret = old.secret]
  ELSE op[a].cfg

(* Slip: a credential the form does not mention is taken to be there.      *)
RefusesSent(a) ==
  ~Runs(Merged(a)) /\ ~(op[a].keep /\ Runs([Merged(a) EXCEPT !.secret = CHOOSE s \in Secrets : TRUE]))

(* validateChannel, on the merged configuration.                           *)
Refuses(a) == ~Runs(Merged(a))

Merge(a, ok) ==
  /\ pc[a] = "merging"
  /\ Access(ok)
  /\ IF ~Got(a, ok) THEN Answer(a, "failed") /\ UNCHANGED mine
     ELSE IF Refuses(a) THEN Answer(a, "invalid") /\ UNCHANGED mine
     ELSE /\ mine' = [mine EXCEPT ![a] = Merged(a)]
          /\ Goto(a, "putting") /\ UNCHANGED reply
  /\ UNCHANGED <<disk, file, process, op, snap, over, trail, edits, history>>

Put(a, ok) ==
  /\ pc[a] = "putting"
  /\ Access(ok)
  /\ IF ok /\ ~over[a]
     THEN /\ Write(op[a].name, mine[a], Sealing(mine[a]))
          /\ last' = [last EXCEPT ![op[a].name] = mine[a]]
          /\ Goto(a, "recording") /\ UNCHANGED reply
     ELSE Answer(a, "failed") /\ UNCHANGED <<table, sealed, ver, last>>
  /\ UNCHANGED <<marker, keyfile, made, file, process, op, mine, snap, over, trail,
                 edits, liveVer, snapVer, missed, overtaken, touched>>

Delete(a, ok) ==
  /\ pc[a] = "deleting"
  /\ Access(ok)
  /\ IF ~ok \/ over[a]
     THEN Answer(a, "failed") /\ UNCHANGED <<table, sealed, ver, last>>
     ELSE IF table[op[a].name] = Absent
     THEN Answer(a, "missing") /\ UNCHANGED <<table, sealed, ver, last>>
     ELSE /\ Write(op[a].name, Absent, "none")
          /\ last' = [last EXCEPT ![op[a].name] = Absent]
          /\ Goto(a, "recording") /\ UNCHANGED reply
  /\ UNCHANGED <<marker, keyfile, made, file, process, op, mine, snap, over, trail,
                 edits, liveVer, snapVer, missed, overtaken, touched>>

(* record: the audit trail; a failure is logged.                           *)
Record(a, ok) ==
  /\ pc[a] = "recording"
  /\ Access(ok)
  /\ trail' = IF ok /\ ~over[a] THEN trail \cup {a} ELSE trail
  /\ Goto(a, "loading")
  /\ UNCHANGED <<disk, file, process, op, mine, snap, over, reply, edits, history>>

-----------------------------------------------------------------------------
(* reload, of the administrators and on SIGHUP.                            *)

(* apply: a file that is refused changes nothing; the settings are in      *)
(* force before the channels are read.                                     *)
Signal ==
  /\ phase = "serving" /\ pc[Hup] = "idle" /\ file.valid
  /\ edits < MaxEdits /\ edits' = edits + 1
  /\ settings' = file.settings
  /\ Goto(Hup, "loading")
  /\ UNCHANGED <<disk, file, phase, using, key, left, live, op, mine, snap, over,
                 reply, trail, mishaps, history>>

(* The change is stored and not live.                                      *)
GiveUp(a) == Answer(a, "stored") /\ missed' = TRUE

Load(a, ok) ==
  /\ pc[a] = "loading"
  /\ Access(ok)
  /\ IF ok /\ ~over[a] /\ \A n \in Names : Opens(n)
     THEN /\ snap' = [snap EXCEPT ![a] = table]
          /\ snapVer' = [snapVer EXCEPT ![a] = ver]
          /\ Goto(a, "installing") /\ UNCHANGED <<reply, missed>>
     ELSE GiveUp(a) /\ UNCHANGED <<snap, snapVer>>
  /\ UNCHANGED <<disk, file, process, op, mine, over, trail, edits, ver, liveVer,
                 last, overtaken, touched>>

(* Slip: what cannot be built is left as it was, the rest is installed.    *)
InstallPart(a) ==
  /\ pc[a] = "installing"
  /\ live' = [n \in Names |-> IF snap[a][n].on /\ Runs(snap[a][n])
                              THEN snap[a][n] ELSE live[n]]
  /\ liveVer' = snapVer[a]
  /\ overtaken' = (snapVer[a] < liveVer \/ (overtaken /\ snapVer[a] # ver))
  /\ missed' = (missed /\ snapVer[a] # ver)
  /\ Answer(a, "live")
  /\ UNCHANGED <<disk, file, phase, using, key, left, settings, op, mine, snap, over,
                 trail, bounds, ver, snapVer, last, touched>>

(* Router.Reload.                                                          *)
Install(a) ==
  /\ pc[a] = "installing"
  /\ IF Builds(snap[a])
     THEN /\ live' = Part(snap[a]) /\ liveVer' = snapVer[a]
          /\ overtaken' = (snapVer[a] < liveVer \/ (overtaken /\ snapVer[a] # ver))
          /\ missed' = (missed /\ snapVer[a] # ver)
          /\ Answer(a, "live")
     ELSE GiveUp(a) /\ UNCHANGED <<live, liveVer, overtaken>>
  /\ UNCHANGED <<disk, file, phase, using, key, left, settings, op, mine, snap, over,
                 trail, bounds, ver, snapVer, last, touched>>

-----------------------------------------------------------------------------
(* The operator, and the end of the process.                               *)

EditFile ==
  /\ edits < MaxEdits /\ edits' = edits + 1
  /\ file' \in Files
  /\ UNCHANGED <<disk, process, op, locals, mishaps, history>>

(* A row written with a SQLite client, which reload.go supports: nothing   *)
(* checks it, and it is live after the next reload.  Nobody writes one      *)
(* within the moment a start takes.                                        *)
EditByHand(n) ==
  /\ phase \in {"down", "serving"}
  /\ edits < MaxEdits /\ edits' = edits + 1
  /\ \E c \in HandRows : Write(n, c, "none") /\ last' = [last EXCEPT ![n] = c]
  /\ missed' = TRUE /\ touched' = TRUE
  /\ UNCHANGED <<marker, keyfile, made, file, process, op, locals, mishaps, liveVer,
                 snapVer, overtaken>>

Crash ==
  /\ phase # "down"
  /\ mishaps < MaxMishaps /\ mishaps' = mishaps + 1
  /\ phase' = "down" /\ key' = "none" /\ live' = Nothing
  /\ pc' = [a \in Actors |-> IF a # Hup /\ pc[a] # "idle" THEN "done" ELSE "idle"]
  /\ UNCHANGED <<disk, file, using, left, settings, op, mine, snap, over, reply,
                 trail, edits, history>>

Starting ==
  \/ Start \/ ResolveKey \/ NameKey \/ SkipImport
  \/ \E ok \in BOOLEAN : Mark(ok) \/ Serve(ok) \/ \E n \in Names : ImportOne(n, ok)

Changing(a) ==
  \/ Begin(a) \/ Leave(a)
  \/ \E ok \in BOOLEAN :
       Read(a, ok) \/ Merge(a, ok) \/ Put(a, ok) \/ Delete(a, ok) \/ Record(a, ok)

Reloading(a) == Install(a) \/ \E ok \in BOOLEAN : Load(a, ok)

Next ==
  \/ Starting
  \/ \E a \in Admins : Changing(a)
  \/ \E a \in Actors : Reloading(a)
  \/ Signal \/ EditFile \/ Crash
  \/ \E n \in Names : EditByHand(n)

Spec == Init /\ [][Next]_vars

-----------------------------------------------------------------------------
(* Properties.                                                             *)

(* Nobody is between a write and its reload.                               *)
Quiet == \A a \in Actors : pc[a] \notin {"recording", "loading", "installing"}

(* What is stored is what is delivering, whoever changed it and in what    *)
(* order, unless a reload failed or is still due, or two overlapped so     *)
(* that the older read was installed last (reload).                        *)
QuietIsLive ==
  phase = "serving" /\ Quiet /\ ~missed /\ ~overtaken => live = Part(table)

(* Whatever administrators save at the same time, and whatever the forms   *)
(* leave out, the service could be restarted on what is stored: no row     *)
(* that is not written by hand refuses to open or to run (saveChannel).    *)
RestartWorks ==
  phase = "serving" /\ ~touched =>
    \A n \in Names : Opens(n) /\ (table[n].on => Runs(table[n]))

(* No crash leaves a credential sealed with a generated key that is not on *)
(* disk, which nobody could open again (ResolveKey, writeKeyFile).         *)
SealsAreKept == \A n \in Names : sealed[n] \in KeyConfigured \cup {"none", keyfile}

(* Once the file has been imported, whole, the table is what was made of   *)
(* it since: no restart brings back what was deleted or undoes an edit,    *)
(* and none of the file's channels is forgotten (ImportOnce).              *)
FileSeedsOnce == marker => table = last

=============================================================================
