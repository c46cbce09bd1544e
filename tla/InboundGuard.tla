---------------------------- MODULE InboundGuard ----------------------------
(***************************************************************************)
(* What the SMTP server keeps about its clients across sessions: the       *)
(* failure counters of the RateLimiter, cleaned up periodically, and the   *)
(* Blocklist in memory and in its file, read again at every start.  Of a   *)
(* session only its attempts at unknown recipients matter here.            *)
(*                                                                         *)
(* Time is counted in periods of the cleanup task (10 minutes); it removes *)
(* an entry that was not seen for MaxAge periods (6, one hour).            *)
(***************************************************************************)
EXTENDS Integers, FiniteSets

CONSTANTS
  IPs,              \* client addresses
  Listed,           \* addresses in a subnet of the file
  Sessions,         \* sessions open at the same time
  TarpitThreshold, BlockThreshold,
  MaxAge,           \* max_age of cleanup
  MaxWriteErrors,   \* bound: failing writes of the file
  MaxRestarts,      \* bound: restarts of the process
  MaxFailures       \* bound: failures counted for one address

ASSUME GuardAssumption ==
  /\ Listed \subseteq IPs
  /\ TarpitThreshold \in Nat /\ BlockThreshold \in Nat
  /\ MaxAge \in Nat \ {0} /\ MaxFailures \in Nat
  /\ MaxWriteErrors \in Nat /\ MaxRestarts \in Nat

VARIABLES
  entries,  \* RateLimiter.map: failures and time since last_seen
  ips,      \* Blocklist.ips
  file,     \* the addresses with a deny line in blockips.conf
  session,  \* what each session is doing, for which address
  recent,   \* auxiliary: failures of each address by age, up to MaxAge
  writeErrors, restarts  \* how many there have been

faults == <<writeErrors, restarts>>

guardVars == <<entries, ips, file, session, recent, faults>>

Ages == 0..MaxAge
NoEntry == [failures |-> 0, age |-> 0]
Closed == [pc |-> "closed", ip |-> "none"]
NoFailures == [a \in Ages |-> 0]

(* counts[0] + ... + counts[n] *)
SumUpTo(counts, n) ==
  LET sum[i \in 0..n] == IF i = 0 THEN counts[0] ELSE sum[i - 1] + counts[i]
  IN  sum[n]

(* how many failures the address has made that are no older than age *)
RecentFailures(ip, age) == SumUpTo(recent[ip], age)

-----------------------------------------------------------------------------
(* run_server: the immediate block check *)

IsBlocked(ip) == ip \in ips \cup Listed

Accept(s, ip) ==
  /\ session[s] = Closed /\ ~IsBlocked(ip)
  /\ session' = [session EXCEPT ![s] = [pc |-> "open", ip |-> ip]]
  /\ UNCHANGED <<entries, ips, file, recent, faults>>

(* QUIT, an error or a timeout; a tarpitted session does not notice *)
Hangup(s) ==
  /\ session[s].pc = "open"
  /\ session' = [session EXCEPT ![s] = Closed]
  /\ UNCHANGED <<entries, ips, file, recent, faults>>

-----------------------------------------------------------------------------
(* handle_rcpt_to for an unknown recipient *)

Recorded(entry) == [failures |-> entry.failures + 1, age |-> 0]

Verdict(failures) ==
  IF failures >= BlockThreshold THEN "block"
  ELSE IF failures >= TarpitThreshold THEN "tarpit" ELSE "open"

UnknownRecipient(s) ==
  LET ip == session[s].ip IN
  /\ session[s].pc = "open" /\ entries[ip].failures < MaxFailures
  /\ entries' = [entries EXCEPT ![ip] = Recorded(@)]
  /\ recent' = [recent EXCEPT ![ip][0] = @ + 1]
  /\ session' = [session EXCEPT ![s].pc = Verdict(entries'[ip].failures)]
  /\ UNCHANGED <<ips, file, faults>>

(* the sleep is over: 451, and the session goes on *)
TarpitEnds(s) ==
  /\ session[s].pc = "tarpit"
  /\ session' = [session EXCEPT ![s].pc = "open"]
  /\ UNCHANGED <<entries, ips, file, recent, faults>>

(* add_ip: the file is written only by the session that was first in memory *)
BlockInMemory(s) ==
  LET ip == session[s].ip IN
  /\ session[s].pc = "block"
  /\ ips' = ips \cup {ip}
  /\ session' = [session EXCEPT ![s] = IF ip \in ips THEN Closed ELSE [@ EXCEPT !.pc = "append"]]
  /\ UNCHANGED <<entries, file, recent, faults>>

(* a write error is ignored *)
AppendOnlyKnown(s) ==
  /\ session[s].pc = "append"
  /\ file' = IF session[s].ip \in ips THEN file ELSE file \cup {session[s].ip}
  /\ session' = [session EXCEPT ![s] = Closed]
  /\ UNCHANGED <<entries, ips, recent, faults>>
AppendToFile(s) ==
  /\ session[s].pc = "append"
  /\ \/ file' = file \cup {session[s].ip} /\ UNCHANGED writeErrors
     \/ UNCHANGED file /\ writeErrors < MaxWriteErrors /\ writeErrors' = writeErrors + 1
  /\ session' = [session EXCEPT ![s] = Closed]
  /\ UNCHANGED <<entries, ips, recent, restarts>>

-----------------------------------------------------------------------------
(* Cleanup keeps the entries younger than MaxAge. *)
CleanupYoung ==
  /\ entries' = [ip \in IPs |-> IF entries[ip].age + 1 < MaxAge THEN entries[ip] ELSE NoEntry]
  /\ UNCHANGED <<ips, file, session, recent, faults>>
Cleanup ==
  /\ entries' = [ip \in IPs |-> IF entries[ip].age < MaxAge THEN entries[ip] ELSE NoEntry]
  /\ UNCHANGED <<ips, file, session, recent, faults>>

(* One cleanup period passes: cleanup has run since the last one. *)
Tick ==
  /\ \A ip \in IPs : entries[ip].age < MaxAge
  /\ entries' = [ip \in IPs |->
       IF entries[ip] = NoEntry THEN NoEntry ELSE [entries[ip] EXCEPT !.age = @ + 1]]
  /\ recent' = [ip \in IPs |-> [a \in Ages |-> IF a = 0 THEN 0 ELSE recent[ip][a - 1]]]
  /\ UNCHANGED <<ips, file, session, faults>>

(* The process ends and starts again: Blocklist::new reads the file. *)
Restart ==
  /\ restarts < MaxRestarts /\ restarts' = restarts + 1
  /\ ips' = file
  /\ entries' = [ip \in IPs |-> NoEntry]
  /\ recent' = [ip \in IPs |-> NoFailures]
  /\ session' = [s \in Sessions |-> Closed]
  /\ UNCHANGED <<file, writeErrors>>

-----------------------------------------------------------------------------
GuardInit ==
  /\ entries = [ip \in IPs |-> NoEntry]
  /\ ips = {} /\ file = {}
  /\ session = [s \in Sessions |-> Closed]
  /\ recent = [ip \in IPs |-> NoFailures]
  /\ writeErrors = 0 /\ restarts = 0

GuardNext ==
  \/ \E s \in Sessions : \/ \E ip \in IPs : Accept(s, ip)
                         \/ Hangup(s) \/ UnknownRecipient(s) \/ TarpitEnds(s)
                         \/ BlockInMemory(s) \/ AppendToFile(s)
  \/ Cleanup \/ Tick \/ Restart

GuardSpec == GuardInit /\ [][GuardNext]_guardVars

-----------------------------------------------------------------------------
(* Properties *)

(* The counter that decides on tarpit and block never counts fewer failures than the
   address has made within MaxAge: neither the cleanup task nor parallel sessions of
   the address make the server forget a recent one (record_failure, cleanup).  *)
NeverUndercounts == \A ip \in IPs : RecentFailures(ip, MaxAge - 1) <= entries[ip].failures

(* A block that is not on file is one whose write has failed: although only one of
   the sessions that reach the threshold together writes, and a restart may come at
   any time, every other blocked address is in the file or about to be (add_ip).  *)
BlocksAreOnFile ==
  LET pending == {session[s].ip : s \in {x \in Sessions : session[x].pc = "append"}}
  IN  Cardinality(ips \ (file \cup pending)) <= writeErrors

(* "returns the total number of recent failures for this IP": a session is held up or
   blocked only for failures of the last MaxAge periods, and the one until the next
   cleanup.  *)
CountsOnlyRecent ==
  [][\A s \in Sessions :
       LET failures == RecentFailures(session[s].ip, MaxAge)' IN
       session[s].pc = "open" =>
         /\ session'[s].pc = "tarpit" => failures >= TarpitThreshold
         /\ session'[s].pc = "block" => failures >= BlockThreshold]_guardVars
=============================================================================
