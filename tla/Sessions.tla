------------------------------ MODULE Sessions ------------------------------
(***************************************************************************)
(* The session set of a PDS (pds/lib/store.mdk) and the routes that move   *)
(* it (pds/lib/handlers.mdk): a login opens a family, presenting a refresh *)
(* token rotates it, replays it or revokes the family, a logout closes it. *)
(* Every request runs as one step (applyRequest, pds/shell/server.mdk): it *)
(* reads the clock and the set, writes the successor to disk and publishes *)
(* it only if that succeeded.  A restart reads the disk back.              *)
(*                                                                         *)
(* A pair of tokens is one member of Token: the access and the refresh     *)
(* token of a session share their nonce, and an access token is accepted   *)
(* while its session is open.  Who presents which token is left open.      *)
(***************************************************************************)
EXTENDS Integers

CONSTANTS
  Token,           \* the token pairs the nonces can name
  NoToken,
  FamilyLifetime,  \* sessionFamilyLifetimeSeconds
  RefreshLifetime, \* refreshTokenSeconds
  Grace,           \* refreshGraceSeconds
  MaxFails,        \* bound on the writes of the sessions file that fail
  MaxTime,         \* bound on the clock
  ClockStepsBack   \* the clock may once be set back

ASSUME SessionConstants ==
  /\ NoToken \notin Token
  /\ FamilyLifetime \in Nat \ {0} /\ RefreshLifetime \in Nat
  \* as the comment on refreshTokenSeconds demands
  /\ FamilyLifetime <= RefreshLifetime
  /\ Grace \in Nat
  /\ MaxFails \in Nat /\ MaxTime \in Nat /\ ClockStepsBack \in BOOLEAN

VARIABLES
  clock,   \* the wall clock
  mem,     \* the published session set
  disk,    \* the sessions file
  fails,   \* the writes that have failed
  born,    \* history: how, from what and when each token was minted, and whether it was sent
  ended,   \* history: the families a request was told had ended
  lost,    \* history: the families whose end failed, and may be on disk all the same
  stepped  \* history: the clock has been set back

vars == <<clock, mem, disk, fails, born, ended, lost, stepped>>

Time == 0..MaxTime
NoOne == [how |-> "unborn", parent |-> NoToken, family |-> NoToken, at |-> 0, sent |-> FALSE]

\* SessionRecord, ConsumedRefresh and SupersededRefresh.
SessionRecord == [token: Token, expires: Nat, family: Token]
ConsumedRefresh == [token: Token, family: Token, at: Time, ends: Nat, replayed: Token \cup {NoToken}]
SupersededRefresh == [token: Token, family: Token, until: Nat]
NoSessions == [open |-> {}, spent |-> {}, over |-> {}]

Smaller(a, b) == IF a < b THEN a ELSE b

Init ==
  /\ clock = 0
  /\ mem = NoSessions /\ disk = NoSessions
  /\ fails = 0
  /\ born = [t \in Token |-> NoOne]
  /\ ended = {} /\ lost = {} /\ stepped = FALSE

-----------------------------------------------------------------------------
(* The session set *)

SessionOf(t, s) == {r \in s.open : r.token = t}
LiveRefresh(now, t, s) == {r \in SessionOf(t, s) : now < r.expires}
Consumed(now, t, s) == {e \in s.spent : e.token = t /\ now < e.ends}
Superseded(now, t, s) == {o \in s.over : o.token = t /\ now < o.until}

StoreRefreshActive(now, t, s) ==
  LiveRefresh(now, t, s) \cup Consumed(now, t, s) \cup Superseded(now, t, s) # {}

Prune(now, s) ==
  [open  |-> {r \in s.open : now < r.expires},
   spent |-> {e \in s.spent : now < e.ends},
   over  |-> {o \in s.over : now < o.until}]

\* Mutant: the consumed and superseded tokens of a closed family are kept.
WithoutOpen(f, s) == [s EXCEPT !.open = {r \in s.open : r.family # f}]

WithoutFamily(f, s) ==
  [open  |-> {r \in s.open : r.family # f},
   spent |-> {e \in s.spent : e.family # f},
   over  |-> {o \in s.over : o.family # f}]

OpenIn(t, expires, f, s) ==
  [open  |-> s.open \cup {[token |-> t, expires |-> expires, family |-> f]},
   spent |-> s.spent, over |-> s.over]

\* The consumption record of r's token.
SpentOf(r, now) == [token |-> r.token, family |-> r.family, at |-> now, ends |-> r.expires,
                    replayed |-> NoToken]

\* Mutant: a rotation begins a lifetime of its own.
RotatedAnew(r, n, now, s) ==
  OpenIn(n, now + RefreshLifetime, r.family,
    [open |-> s.open \ SessionOf(r.token, s), spent |-> s.spent \cup {SpentOf(r, now)},
     over |-> s.over])

(* storeSessionRotate of the token of the open session r: consumed, and     *)
(* replaced by n, which ends with its family.                              *)
Rotated(r, n, now, s) ==
  OpenIn(n, Smaller(now + RefreshLifetime, r.expires), r.family,
    [open |-> s.open \ SessionOf(r.token, s), spent |-> s.spent \cup {SpentOf(r, now)},
     over |-> s.over])

\* Mutant: the session is closed and its token forgotten.
SupersedeForgetting(t, s) == [s EXCEPT !.open = @ \ SessionOf(t, s)]

\* Mutant: a replay closes nothing.
SupersedeNothing(t, s) == s

\* supersede: the session an earlier replay opened is closed, its token kept.
Supersede(t, s) ==
  [open  |-> s.open \ SessionOf(t, s), spent |-> s.spent,
   over  |-> s.over \cup {[token |-> t, family |-> r.family, until |-> r.expires] : r \in SessionOf(t, s)}]

\* Mutant: a replay begins the window again.
ReplayedAgain(e, n, now, s) ==
  LET kept == Supersede(e.replayed, s)
  IN  OpenIn(n, Smaller(now + RefreshLifetime, e.ends), e.family,
        [kept EXCEPT !.spent = {x \in @ : x.token # e.token} \cup {[e EXCEPT !.replayed = n, !.at = now]}])

(* storeSessionRotate of the consumed token of e, within its grace window. *)
Replayed(e, n, now, s) ==
  LET kept == Supersede(e.replayed, s)
  IN  OpenIn(n, Smaller(now + RefreshLifetime, e.ends), e.family,
        [open |-> kept.open, over |-> kept.over,
         spent |-> {x \in s.spent : x.token # e.token} \cup {[e EXCEPT !.replayed = n]}])

\* storeSessionClose: the family the token names, wherever it is found first.
FamilyOf(now, t, s) ==
  IF SessionOf(t, s) # {} THEN {r.family : r \in SessionOf(t, s)}
  ELSE IF Consumed(now, t, s) # {} THEN {e.family : e \in Consumed(now, t, s)}
  ELSE {o.family : o \in Superseded(now, t, s)}

-----------------------------------------------------------------------------
(* Requests *)

\* persistSessionsHalf and the publication behind it: a write that fails leaves
\* the old rows or the new, and publishes neither them nor an answer.
Settle(ok, next) ==
  IF ok THEN mem' = next /\ disk' = next /\ UNCHANGED fails
  ELSE /\ fails < MaxFails /\ fails' = fails + 1
       /\ disk' \in {disk, next} /\ UNCHANGED mem

Mint(n, how, parent, family, ok) ==
  /\ born[n] = NoOne
  /\ born' = [born EXCEPT ![n] = [how |-> how, parent |-> parent, family |-> family,
                                  at |-> clock, sent |-> ok]]

\* A signed token that has not expired, of a session or family that is known.
Admitted(t) ==
  /\ born[t].sent
  /\ clock < born[t].at + RefreshLifetime
  /\ StoreRefreshActive(clock, t, mem)

Pruned == Prune(clock, mem)

CreateSession(n, ok) ==
  /\ Mint(n, "login", NoToken, n, ok)
  /\ Settle(ok, OpenIn(n, clock + FamilyLifetime, n, Pruned))
  /\ UNCHANGED <<clock, ended, lost, stepped>>

RefreshRotates(t, n, ok) ==
  /\ Admitted(t)
  /\ \E r \in LiveRefresh(clock, t, Pruned) :
       /\ Mint(n, "rotation", t, r.family, ok)
       /\ Settle(ok, Rotated(r, n, clock, Pruned))
  /\ UNCHANGED <<clock, ended, lost, stepped>>

RefreshReplays(t, n, ok) ==
  /\ Admitted(t)
  /\ LiveRefresh(clock, t, Pruned) = {}
  /\ \E e \in Consumed(clock, t, Pruned) :
       /\ clock < e.at + Grace
       /\ Mint(n, "replay", t, e.family, ok)
       /\ Settle(ok, Replayed(e, n, clock, Pruned))
  /\ UNCHANGED <<clock, ended, lost, stepped>>

Ends(f, ok) ==
  /\ Settle(ok, WithoutFamily(f, Pruned))
  /\ ended' = (IF ok THEN ended \cup {f} ELSE ended)
  /\ lost' = (IF ok THEN lost ELSE lost \cup {f})
  /\ UNCHANGED <<clock, born, stepped>>

RefreshRevokes(t, ok) ==
  /\ Admitted(t)
  /\ LiveRefresh(clock, t, Pruned) = {}
  /\ \E e \in Consumed(clock, t, Pruned) : e.at + Grace <= clock /\ Ends(e.family, ok)

DeleteSession(t, ok) ==
  /\ Admitted(t)
  /\ \E f \in FamilyOf(clock, t, Pruned) : Ends(f, ok)

\* The process ends, also in the middle of a request, and the next one starts.
Restart ==
  /\ mem' = Prune(clock, disk)
  /\ UNCHANGED <<clock, disk, fails, born, ended, lost, stepped>>

Tick == clock < MaxTime /\ clock' = clock + 1
        /\ UNCHANGED <<mem, disk, fails, born, ended, lost, stepped>>

SetBack == ClockStepsBack /\ ~ stepped /\ stepped' = TRUE /\ clock' \in 0..(clock - 1)
           /\ UNCHANGED <<mem, disk, fails, born, ended, lost>>

Request ==
  \E t, n \in Token, ok \in BOOLEAN :
    \/ CreateSession(n, ok) \/ RefreshRotates(t, n, ok) \/ RefreshReplays(t, n, ok)
    \/ RefreshRevokes(t, ok) \/ DeleteSession(t, ok)

Next == Request \/ Restart \/ Tick \/ SetBack
Spec == Init /\ [][Next]_vars

-----------------------------------------------------------------------------
SessionRows == [open: SUBSET SessionRecord, spent: SUBSET ConsumedRefresh,
                over: SUBSET SupersededRefresh]

TypeOK ==
  /\ clock \in Time /\ {mem, disk} \subseteq SessionRows /\ fails \in 0..MaxFails
  /\ born \in [Token -> [how: {"unborn", "login", "rotation", "replay"},
                         parent: Token \cup {NoToken}, family: Token \cup {NoToken},
                         at: Time, sent: BOOLEAN]]
  /\ ended \subseteq Token /\ lost \subseteq Token /\ stepped \in BOOLEAN

Tokens(rows) == {x.token : x \in rows}
Families(rows) == {x.family : x \in rows}
FamilyEnd(f) == born[f].at + FamilyLifetime

(* A family that was revoked or logged out of is gone for good: neither the *)
(* published set nor the file a restart reads holds a row of it, whatever   *)
(* was opened, replayed, or failed to be written around its end.            *)
EndedFamilyIsGone ==
  \A s \in {mem, disk} : ended \cap (Families(s.open) \cup Families(s.spent) \cup Families(s.over)) = {}

(* Whatever is rotated, replayed or superseded, and through restarts and    *)
(* writes that fail, every token that was sent can still be told from one   *)
(* that never was, until its family ends: it opens a session, or was        *)
(* consumed, or was opened by a replay and is superseded.  Only a replay's  *)
(* session is ever closed by another.                                       *)
SentIsRemembered ==
  \A t \in Token :
    LET f == born[t].family
    IN  born[t].sent /\ f \notin ended \cup lost /\ clock < FamilyEnd(f) /\ ~ stepped =>
          \/ t \in Tokens(mem.open) \cup Tokens(mem.spent)
          \/ born[t].how = "replay" /\ t \in Tokens(mem.over)

(* However often a consumed token is presented, at most one session that a  *)
(* replay of it opened is open at a time.                                   *)
OneReplayPerToken ==
  \A a, b \in Tokens(mem.open) :
    born[a].how = "replay" /\ born[b].how = "replay" /\ born[a].parent = born[b].parent => a = b

(* The pairs one token is answered with are minted within one grace window: *)
(* a replay does not begin it again, and neither does a restart.            *)
GraceIsNotExtended ==
  \A a, b \in Token :
    /\ born[a].sent /\ born[b].sent /\ ~ stepped
    /\ born[a].parent # NoToken /\ born[a].parent = born[b].parent
    => a = b \/ born[b].at - born[a].at < Grace

(* No rotation carries a session past the end its login gave the family,    *)
(* however the clock was set.                                               *)
FamilyEndsInTime ==
  \A s \in {mem, disk} :
    /\ \A r \in s.open : r.expires <= FamilyEnd(r.family)
    /\ \A e \in s.spent : e.ends <= FamilyEnd(e.family)
    /\ \A o \in s.over : o.until <= FamilyEnd(o.family)
=============================================================================
