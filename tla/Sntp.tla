-------------------------------- MODULE Sntp --------------------------------
(***************************************************************************)
(* The time client of src/sntp: it asks a server for the time twice and     *)
(* sets the clock from each answer, correcting for the way the datagrams    *)
(* took.  The server is the repository's own ("own", sntp_server.c) or one  *)
(* that follows the protocol ("ntp", external).  Datagrams may be lost and  *)
(* duplicated and take up to MaxDelay.                                      *)
(*                                                                          *)
(* A timestamp is a fixed-point number of seconds, whole seconds modulo Era *)
(* (2^32) and Frac (2^32) parts of a second.  Real time and the clocks are  *)
(* counted in ticks, Tps (10^6) to the second, of which a clock shows the   *)
(* whole seconds modulo Era.                                                *)
(***************************************************************************)
EXTENDS Integers, FiniteSets

CONSTANTS
  Tps, Frac, Era,
  Epoch,      \* seconds from 1900 to 1970, modulo Era (0x83aa7e80)
  Servers,    \* subset of {"ntp", "own"}
  Starts,     \* real times at which the client is started
  Offsets,    \* how far its clock is off then, in ticks modulo Ticks
  Garbage,    \* values the uninitialised tNowTV may hold
  MaxDelay,   \* a datagram is under way, or at the server, for so many ticks
  MaxFault    \* bound: datagrams lost or duplicated, calls that fail

ASSUME SntpAssumption ==
  /\ Tps \in Nat \ {0} /\ Frac \in Nat /\ Frac % Tps = 0 /\ Tps < Frac
  /\ Era \in Nat \ {0} /\ Era % 2 = 0 /\ Epoch \in 0 .. Era - 1
  /\ Servers \subseteq {"ntp", "own"}
  /\ Starts \subseteq Nat /\ Offsets \subseteq Nat /\ Garbage \subseteq 0 .. Era * Tps - 1
  /\ MaxDelay \in Nat \ {0} /\ MaxFault \in Nat

(* A datagram is not under way for decades: there, back and a second are     *)
(* less than half the time after which the seconds wrap, and the difference *)
(* of two timestamps has the right sign.                                    *)
ASSUME SntpDelays == 2 * (2 * MaxDelay + Tps) <= Era * Tps

VARIABLES
  server,     \* never changes
  now,        \* real time; the server's clock shows it
  clock,      \* the client's clock
  pc, iCnt,   \* the client: "send", "wait" or "done"; rounds made
  net,        \* datagrams under way
  faults,
  failed,     \* history: rounds of which a datagram was lost or refused
  stale,      \* history: an answer to an earlier request was used
  wild,       \* history: the clock was set from tNowTV uninitialised
  skew        \* history: difference of the ways of the answer used last
              \* (Unset: none was)

vars == <<server, now, clock, pc, iCnt, net, faults, failed, stale, wild, skew>>

Ticks == Era * Tps            \* after so many ticks the seconds wrap
Span == Era * Frac            \* timestamps are numbers modulo Span
Shown(t) == t % Ticks         \* what a clock shows at time t
Unset == Ticks

(* SntpGetSysTime: the microseconds are put into the fraction as they are.  *)
SntpGetSysTime(t) == (Shown(t) \div Tps) * Frac + (Shown(t) % Tps)

(* External: the timestamp of a server that follows the protocol.           *)
NtpTime(t) == (((t \div Tps) + Epoch) % Era) * Frac + (t % Tps) * (Frac \div Tps)

Stamp(t) == IF server = "ntp" THEN NtpTime(t) ELSE SntpGetSysTime(t)

(* The timestamp arithmetic of mysntp.h is that of 64-bit two's complement. *)
TS_ADD(a, b) == (a + b) % Span
TS_SUB(a, b) == (a - b) % Span
Signed(a) == IF a >= Span \div 2 THEN a - Span ELSE a
TS_RSHIFT(a) == (Signed(a) \div 2) % Span

(* From a timestamp to seconds and microseconds.                            *)
TimeVal(a) == (a \div Frac) * Tps + ((a % Frac) * Tps) \div Frac

Init ==
  /\ server \in Servers /\ now \in Starts
  /\ \E o \in Offsets : clock = Shown(now + o)
  /\ pc = "send" /\ iCnt = 0 /\ net = {}
  /\ faults = 0 /\ failed = {} /\ stale = FALSE /\ wild = FALSE /\ skew = Unset

-----------------------------------------------------------------------------
(* The client.  A request carries its time of sending as tXmt; tOrig is 0.  *)

SendRequest ==
  /\ pc = "send" /\ pc' = "wait"
  /\ net' = net \cup {[to |-> "server", round |-> iCnt, since |-> now, copy |-> 0,
                       way |-> 0, tOrig |-> 0, tRecv |-> 0, tXmt |-> SntpGetSysTime(clock)]}
  /\ UNCHANGED <<server, now, clock, iCnt, faults, failed, stale, wild, skew>>

(* A send that fails ends the client.                                       *)
SendFails ==
  /\ pc = "send" /\ faults < MaxFault
  /\ pc' = "done" /\ faults' = faults + 1
  /\ UNCHANGED <<server, now, clock, iCnt, net, failed, stale, wild, skew>>

(* Mutant of Interval: the whole way there and back.                        *)
IntervalWhole(T1, T2, T3, T4) == TS_SUB(TS_SUB(T4, T1), TS_SUB(T3, T2))

(* The time of one way: ((T4 - T1) - (T3 - T2)) / 2.                        *)
Interval(T1, T2, T3, T4) == TS_RSHIFT(TS_SUB(TS_SUB(T4, T1), TS_SUB(T3, T2)))

Unix(a) == TS_SUB(a, Epoch * Frac)

(* The time the clock is set to: the answer's and one way.                  *)
SetFrom(m, T4) ==
  LET T2 == Unix(m.tRecv)
      T3 == Unix(m.tXmt)
  IN  TimeVal(TS_ADD(T3, Interval(m.tOrig, T2, T3, T4)))

(* Mutant of NextRound: the second request is not sent.                     *)
NextRoundUnasked == IF iCnt = 1 THEN "done" ELSE "wait"

NextRound == IF iCnt = 1 THEN "done" ELSE "send"

Taken(m) == net' = net \ {m} /\ UNCHANGED <<server, now, faults>>

(* settimeofday sets the clock.  Whose request is answered is not looked at. *)
Set(m, t) ==
  /\ clock' = t /\ stale' = (stale \/ m.round # iCnt)
  /\ iCnt' = iCnt + 1 /\ pc' = NextRound
  /\ UNCHANGED failed

(* It fails, for want of the right or because the kernel does not take the  *)
(* time: the client does not ask again but waits for another answer.        *)
Refused(m) ==
  /\ failed' = failed \cup {m.round}
  /\ UNCHANGED <<clock, stale, wild, skew, iCnt, pc>>

(* SntpRecvHandle with an answer that tells when the request was sent.      *)
UseAnswer ==
  \E m \in net :
    /\ pc = "wait" /\ m.to = "client" /\ m.tOrig # 0
    /\ \/ Set(m, SetFrom(m, SntpGetSysTime(clock)))
          /\ skew' = m.way - (now - m.since) /\ UNCHANGED wild
       \/ Refused(m)
    /\ Taken(m)

(* Without tOrig the clock is set from a variable that was not written.     *)
UseUnset ==
  \E m \in net :
    /\ pc = "wait" /\ m.to = "client" /\ m.tOrig = 0
    /\ \/ (\E g \in Garbage : Set(m, g)) /\ wild' = TRUE /\ UNCHANGED skew
       \/ Refused(m)
    /\ Taken(m)

(* A receive that fails ends the round.                                     *)
RecvFails ==
  /\ pc = "wait" /\ faults < MaxFault
  /\ iCnt' = iCnt + 1 /\ pc' = NextRound /\ faults' = faults + 1
  /\ UNCHANGED <<server, now, clock, net, failed, stale, wild, skew>>

-----------------------------------------------------------------------------
(* The server takes a request and answers it.  The own server repeats       *)
(* tOrig, which the client left 0; one that follows the protocol puts the   *)
(* request's tXmt there.                                                    *)

Receive ==
  \E m \in net :
    /\ m.to = "server"
    /\ net' = (net \ {m}) \cup
                {[m EXCEPT !.to = "busy", !.since = now, !.way = now - m.since,
                           !.tRecv = Stamp(now),
                           !.tOrig = IF server = "ntp" THEN m.tXmt ELSE m.tOrig]}
    /\ UNCHANGED <<server, now, clock, pc, iCnt, faults, failed, stale, wild, skew>>

sntp_send_packet ==
  \E m \in net :
    /\ m.to = "busy"
    /\ net' = (net \ {m}) \cup {[m EXCEPT !.to = "client", !.since = now, !.tXmt = Stamp(now)]}
    /\ UNCHANGED <<server, now, clock, pc, iCnt, faults, failed, stale, wild, skew>>

-----------------------------------------------------------------------------
(* External: time and the network.                                          *)

Tick ==
  /\ pc # "done" /\ net # {}
  /\ \A m \in net : now - m.since < MaxDelay
  /\ now' = now + 1 /\ clock' = Shown(clock + 1)
  /\ UNCHANGED <<server, pc, iCnt, net, faults, failed, stale, wild, skew>>

Lose ==
  \E m \in net :
    /\ m.to # "busy" /\ faults < MaxFault
    /\ net' = net \ {m} /\ faults' = faults + 1 /\ failed' = failed \cup {m.round}
    /\ UNCHANGED <<server, now, clock, pc, iCnt, stale, wild, skew>>

Duplicate ==
  \E m \in net :
    /\ m.to # "busy" /\ faults < MaxFault
    /\ net' = net \cup {[m EXCEPT !.copy = faults + 1]} /\ faults' = faults + 1
    /\ UNCHANGED <<server, now, clock, pc, iCnt, failed, stale, wild, skew>>

Next ==
  \/ SendRequest \/ SendFails \/ UseAnswer \/ UseUnset \/ RecvFails
  \/ Receive \/ sntp_send_packet \/ Tick \/ Lose \/ Duplicate

Spec == Init /\ [][Next]_vars

(* The client and the server run, and what the network does not lose it     *)
(* delivers.                                                                *)
FairSpec ==
  Spec /\ WF_vars(SendRequest) /\ WF_vars(UseAnswer) /\ WF_vars(UseUnset)
       /\ WF_vars(Receive) /\ WF_vars(sntp_send_packet)

-----------------------------------------------------------------------------
(* Properties.                                                              *)

Abs(x) == IF x < 0 THEN -x ELSE x
Error == LET d == (clock - now) % Ticks IN IF d > Ticks \div 2 THEN d - Ticks ELSE d

(* The clock is right to half a second: with a server that follows the      *)
(* protocol, and unless an answer to an earlier request was used or the     *)
(* request was sent at time 0, which reads as no tOrig, the clock is off by *)
(* no more than half the difference of the two ways and half a              *)
(* second, wherever the seconds and the era turn over in between, and       *)
(* however wrong it was (sntp_client.c 171-187, SntpUtil.c 31-32).  The     *)
(* half second is the price of microseconds taken for 2^-32 seconds.        *)
RightToHalfASecond ==
  server = "ntp" /\ skew # Unset /\ ~stale /\ ~wild =>
    2 * Abs(Error) <= Abs(skew) + Tps

(* The client comes to an end, with either server, or is left waiting in a  *)
(* round of which a datagram was lost or an answer refused by settimeofday, *)
(* when nothing is under way any more: it asks only once in a round and     *)
(* waits without a timeout (sntp_client.c 343-411).                         *)
Ends ==
  <>[](\/ pc = "done"
       \/ pc = "wait" /\ net = {} /\ iCnt \in failed)
=============================================================================
