------------------------------ MODULE HotReload ------------------------------
(* The TLS configuration of the SMTP server and the task that reloads it when the
   certificate file changes (inbound/acceptor.rs), against a tool that renews the
   files.  The files are either a certificate and a key, or one file that holds both
   (AUTO_TLS, cert_path = key_path).

   A pair stands for its version.  The server reads the certificate first and the
   key after it; the other side may write in between.  A write truncates the file and
   completes it later, and each half gives it a new modification time. *)
EXTENDS Naturals, Sequences

CONSTANTS
  Modes,        \* of {"manual", "auto"}: a file each, or one file for both
  Orders,       \* of {"key_first", "cert_first"}: how the tool renews two files
  MaxVersion,   \* bound on the number of renewals
  MaxStarts     \* bound on the number of times the server is started

ASSUME ReloadAssumption ==
  /\ Modes \subseteq {"manual", "auto"}
  /\ Orders \subseteq {"key_first", "cert_first"}
  /\ MaxVersion \in Nat
  /\ MaxStarts \in Nat

VARIABLES
  mode, order,
  disk,      \* the two files, the same one twice in mode auto
  mtime,     \* modification time of the certificate; 0 before it exists (UNIX_EPOCH)
  writing,   \* the writes the tool still has to do for a renewal
  served,    \* versions of certificate and key in the loaded configuration
  server,    \* "down", "plain" without acceptor, or the step of the loading task
  read,      \* the certificate that load_config has read
  last,      \* last_modified
  starts,    \* starts of the server so far
  overtaken  \* history: the certificate changed between the first load and the first
             \* look at its modification time

reloadVars == <<mode, order, disk, mtime, writing, served, server, read, last, starts, overtaken>>

Files == {"cert", "key"}
Missing == [state |-> "missing", version |-> 0]
Torn == [state |-> "torn", version |-> 0]
Whole(v) == [state |-> "whole", version |-> v]
Nothing == [cert |-> 0, key |-> 0]
Loaded == [cert |-> read.version, key |-> disk["key"].version]

-----------------------------------------------------------------------------
(* The tool that renews the certificate *)

Set(file, content) ==
  /\ disk' = IF mode = "auto" THEN [f \in Files |-> content] ELSE [disk EXCEPT ![file] = content]
  /\ mtime' = IF mode = "auto" \/ file = "cert" THEN mtime + 1 ELSE mtime

Renew ==
  /\ writing.files = <<>> /\ writing.version < MaxVersion
  /\ writing' = [version |-> writing.version + 1,
                 files |-> IF mode = "auto" THEN <<"cert">>
                           ELSE IF order = "key_first" THEN <<"key", "cert">> ELSE <<"cert", "key">>]
  /\ UNCHANGED <<mode, order, disk, mtime, served, server, read, last, starts, overtaken>>

WriteBegins ==
  /\ writing.files # <<>> /\ disk[writing.files[1]] # Torn
  /\ Set(writing.files[1], Torn)
  /\ UNCHANGED <<mode, order, writing, served, server, read, last, starts, overtaken>>

WriteEnds ==
  /\ writing.files # <<>> /\ disk[writing.files[1]] = Torn
  /\ Set(writing.files[1], Whole(writing.version))
  /\ writing' = [writing EXCEPT !.files = IF Len(@) = 1 THEN <<>> ELSE <<@[2]>>]
  /\ UNCHANGED <<mode, order, served, server, read, last, starts, overtaken>>

-----------------------------------------------------------------------------
(* bootstrap and HotReloadAcceptor::new *)

FilesExist == \A f \in Files : disk[f] # Missing

(* Without files a server without AUTO_TLS starts in plain mode and stays in it. *)
Start ==
  /\ server = "down" /\ starts < MaxStarts
  /\ starts' = starts + 1
  /\ served' = Nothing /\ last' = 0 /\ overtaken' = FALSE
  /\ \/ /\ FilesExist
        /\ read' = disk["cert"] /\ server' = "first_key"
     \/ /\ ~FilesExist /\ mode = "auto"
        /\ server' = "first_look" /\ UNCHANGED read
     \/ /\ ~FilesExist /\ mode = "manual"
        /\ server' = "plain" /\ UNCHANGED read
  /\ UNCHANGED <<mode, order, disk, mtime, writing>>

PairMatchesUnchecked == read.state = "whole" /\ disk["key"].state = "whole"

(* load_config: both files parse and with_single_cert accepts the key. *)
PairMatches == read.state = "whole" /\ disk["key"] = read

(* An error of the first load ends the start. *)
FirstKey ==
  /\ server = "first_key"
  /\ \/ PairMatches /\ served' = Loaded /\ server' = "first_look"
     \/ ~PairMatches /\ served' = Nothing /\ server' = "down"
  /\ UNCHANGED <<mode, order, disk, mtime, writing, read, last, starts, overtaken>>

(* The spawned task begins with the modification time. *)
FirstLook ==
  /\ server = "first_look"
  /\ last' = mtime
  /\ overtaken' = (disk["cert"].state = "whole" /\ disk["cert"].version # served.cert)
  /\ server' = "sleep"
  /\ UNCHANGED <<mode, order, disk, mtime, writing, served, read, starts>>

ChangedTwice == mtime >= last + 2

Changed == mtime > last \/ last = 0

(* last_modified is set before the load is known to succeed. *)
Wake ==
  /\ server = "sleep" /\ mtime > 0 /\ Changed
  /\ last' = mtime
  /\ server' = "reload"
  /\ UNCHANGED <<mode, order, disk, mtime, writing, served, read, starts, overtaken>>

ReadCert ==
  /\ server = "reload"
  /\ IF FilesExist
     THEN read' = disk["cert"] /\ server' = "reload_key"
     ELSE UNCHANGED read /\ server' = "sleep"
  /\ UNCHANGED <<mode, order, disk, mtime, writing, served, last, starts, overtaken>>

(* A failed load keeps the configuration. *)
ReadKey ==
  /\ server = "reload_key"
  /\ served' = IF PairMatches THEN Loaded ELSE served
  /\ overtaken' = (overtaken /\ ~PairMatches)
  /\ server' = "sleep"
  /\ UNCHANGED <<mode, order, disk, mtime, writing, read, last, starts>>

Stop ==
  /\ server # "down"
  /\ server' = "down" /\ served' = Nothing
  /\ UNCHANGED <<mode, order, disk, mtime, writing, read, last, starts, overtaken>>

Process == FirstKey \/ FirstLook \/ Wake \/ ReadCert \/ ReadKey

-----------------------------------------------------------------------------
ReloadInit ==
  /\ mode \in Modes /\ order \in Orders
  /\ disk = [f \in Files |-> Missing] /\ mtime = 0
  /\ writing = [version |-> 0, files |-> <<>>]
  /\ served = Nothing /\ server = "down" /\ read = Missing /\ last = 0 /\ starts = 0
  /\ overtaken = FALSE

ReloadNext ==
  \/ Renew \/ WriteBegins \/ WriteEnds
  \/ Start \/ Stop
  \/ Process

(* The start and the watcher's timer go on as long as the process runs. *)
Fairness == WF_reloadVars(Process)
ReloadSpec == ReloadInit /\ [][ReloadNext]_reloadVars /\ Fairness
-----------------------------------------------------------------------------
(* Properties *)

OnDisk(v) == \A f \in Files : disk[f] = Whole(v)
Running == server \notin {"down", "plain"}

(* STARTTLS never offers a certificate with the key of another renewal, although
   load_config reads two files that change in between.  *)
ServedPairMatches == served.cert = served.key

(* A complete pair is served in the end, without a restart, unless it changed during the
   start.  The watcher remembers the time before the files are read, so no write escapes
   it.  For a tool that writes the key first, or both in one file.  *)
RenewalIsServed ==
  \A v \in 1..MaxVersion :
    Running /\ OnDisk(v) ~> (served.cert = v \/ ~OnDisk(v) \/ ~Running \/ overtaken)
=============================================================================
