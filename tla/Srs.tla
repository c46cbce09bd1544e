-------------------------------- MODULE Srs --------------------------------
(* Sender addresses that survive forwarding (outbound/srs.rs).  The address carries     *)
(* the day it was made, modulo 1024, under a keyed hash; it is good for 21 days.        *)
EXTENDS Naturals

Period == 1024
MaxAge == 21

get_current_srs_timestamp(day) == day % Period

\* External: HMAC-SHA256 in base32.  Only the four characters kept of it are compared;
\* that they tell two texts apart is assumed.
Mac(timestamp, sender) == <<timestamp, sender>>

encode_srs(sender, day) ==
  LET timestamp == get_current_srs_timestamp(day)
  IN  [hash |-> Mac(timestamp, sender), timestamp |-> timestamp, sender |-> sender]

\* The age without the wrap-around.
AgeUnwrapped(current, timestamp) ==
  IF current >= timestamp THEN current - timestamp ELSE 0

\* A timestamp past the period makes the unsigned subtraction wrap, to an age far above
\* the limit (a build with overflow checks stops instead).
Age(current, timestamp) ==
  CASE current >= timestamp -> current - timestamp
    [] timestamp \in (current + 1)..(current + Period) -> (current + Period) - timestamp
    [] timestamp > current + Period -> MaxAge + 1

\* The original sender, or "none".
decode_srs(address, day) ==
  IF /\ Age(get_current_srs_timestamp(day), address.timestamp) <= MaxAge
     /\ address.hash = Mac(address.timestamp, address.sender)
  THEN address.sender
  ELSE "none"

-----------------------------------------------------------------------------
\* An address made on `day` gives its sender back for MaxAge days and then, until the
\* counter has gone round, nothing; another date does not pass under the same hash.
GoodForMaxAge(sender, day, timestamps) ==
  LET address == encode_srs(sender, day)
  IN  /\ \A age \in 0..(Period - 1) :
           decode_srs(address, day + age) = (IF age <= MaxAge THEN sender ELSE "none")
      /\ \A t \in timestamps \ {address.timestamp} :
           decode_srs([address EXCEPT !.timestamp = t], day) = "none"
=============================================================================
