--------------------------- MODULE SessionsProofs ---------------------------
(***************************************************************************)
(* Proofs about Sessions, for any tokens, lifetimes and faults.            *)
(*                                                                         *)
(* The published set, the file and what a request makes of them are all    *)
(* session sets, so the inductive invariant is stated of any one of them:  *)
(* its operators take a session set s and the history b of the tokens.  A  *)
(* step replaces either set by the other or by the outcome of one of four   *)
(* operations, and each of those is shown to keep what the sets share.     *)
(***************************************************************************)
EXTENDS Sessions, TLAPS

USE DEF Time

(***************************************************************************)
(* The inductive invariant                                                 *)
(***************************************************************************)
History == [Token -> [how: {"unborn", "login", "rotation", "replay"},
                      parent: Token \cup {NoToken}, family: Token \cup {NoToken},
                      at: Time, sent: BOOLEAN]]

Minted(b, t) == b[t].how # "unborn"
End(b, f) == b[f].at + FamilyLifetime

\* Families and parents of minted tokens are minted.
Rooted(b) ==
  \A t \in Token :
    /\ b[t].sent => Minted(b, t)
    /\ Minted(b, t) => b[t].family \in Token /\ Minted(b, b[t].family)
    /\ b[t].parent # NoToken => Minted(b, t) /\ Minted(b, b[t].parent)

\* Every row is of a minted token, in its family.
Placed(rows, b) == \A x \in rows : Minted(b, x.token) /\ x.family = b[x.token].family
AllPlaced(s, b) == Placed(s.open, b) /\ Placed(s.spent, b) /\ Placed(s.over, b)

\* A consumed token has one record, and opens nothing.
SpentOnce(s) == \A e, x \in s.spent : e.token = x.token => e = x
Apart(s) == \A r \in s.open, e \in s.spent : r.token # e.token

\* A session a replay opened is the one its token's record names, and ends with it.
Linked(s, b) ==
  \A r \in s.open : b[r.token].how = "replay" =>
    \E e \in s.spent : /\ e.token = b[r.token].parent /\ e.replayed = r.token
                       /\ r.expires <= e.ends /\ r.family = e.family
NamesReplay(s, b) ==
  \A e \in s.spent : e.replayed # NoToken => b[e.replayed].how = "replay"

InTime(s, b) ==
  /\ \A r \in s.open : r.expires <= End(b, r.family)
  /\ \A e \in s.spent : e.ends <= End(b, e.family)
  /\ \A o \in s.over : o.until <= End(b, o.family)

Sound(s, b) ==
  /\ s \in SessionRows /\ AllPlaced(s, b)
  /\ SpentOnce(s) /\ Apart(s) /\ Linked(s, b) /\ NamesReplay(s, b)
  /\ InTime(s, b)

\* No row of a family that has ended.
Gone(s, dead) ==
  /\ \A r \in s.open : r.family \notin dead
  /\ \A e \in s.spent : e.family \notin dead
  /\ \A o \in s.over : o.family \notin dead

(* With a clock that never went back: every row lasts as long as its family, *)
(* and the record of a token is older than any pair the token was answered   *)
(* with, but by less than a grace window.                                    *)
Past(b, now) == \A t \in Token : b[t].at <= now

Full(s, b) ==
  /\ \A r \in s.open : r.expires = End(b, r.family)
  /\ \A e \in s.spent : e.ends = End(b, e.family)
  /\ \A o \in s.over : o.until = End(b, o.family)

Graced(s, b, now) ==
  /\ \A e \in s.spent : e.at <= now
  /\ \A c \in Token : b[c].sent =>
       /\ \A r \in s.open : r.token # b[c].parent
       /\ \A e \in s.spent : e.token = b[c].parent =>
            e.at <= b[c].at /\ (b[c].at = e.at \/ b[c].at < e.at + Grace)

Known(s, b, now, dead) ==
  \A t \in Token :
    b[t].sent /\ b[t].family \notin dead /\ now < End(b, b[t].family) =>
      \/ \E r \in s.open : r.token = t
      \/ \E e \in s.spent : e.token = t
      \/ b[t].how = "replay" /\ \E o \in s.over : o.token = t

\* As long as the clock goes forward.
Timely(s, b, now, dead) == Full(s, b) /\ Graced(s, b, now) /\ Known(s, b, now, dead)

PairsClose(b) ==
  \A c, d \in Token :
    b[c].sent /\ b[d].sent /\ b[c].parent # NoToken /\ b[c].parent = b[d].parent =>
      c = d \/ b[d].at - b[c].at < Grace

Dead == ended \cup lost
Inv1 == born \in History /\ Rooted(born) /\ ended \subseteq {t \in Token : Minted(born, t)}
Inv2 == Sound(mem, born) /\ Sound(disk, born)
Inv3 == Gone(mem, ended) /\ Gone(disk, ended)
Inv4 == ~ stepped =>
          /\ Past(born, clock) /\ PairsClose(born)
          /\ Timely(mem, born, clock, Dead) /\ Timely(disk, born, clock, Dead)
IInv == TypeOK /\ Inv1 /\ Inv2 /\ Inv3 /\ Inv4
-----------------------------------------------------------------------------
(***************************************************************************)
(* The rows after each operation                                           *)
(***************************************************************************)
(* Prune and WithoutFamily take rows away and add none. *)
LEMMA FewerRows ==
  ASSUME NEW s \in SessionRows, NEW now, NEW f
  PROVE  /\ Prune(now, s) \in SessionRows /\ WithoutFamily(f, s) \in SessionRows
         /\ \A r : r \in Prune(now, s).open <=> r \in s.open /\ now < r.expires
         /\ \A e : e \in Prune(now, s).spent <=> e \in s.spent /\ now < e.ends
         /\ \A o : o \in Prune(now, s).over <=> o \in s.over /\ now < o.until
         /\ \A r : r \in WithoutFamily(f, s).open <=> r \in s.open /\ r.family # f
         /\ \A e : e \in WithoutFamily(f, s).spent <=> e \in s.spent /\ e.family # f
         /\ \A o : o \in WithoutFamily(f, s).over <=> o \in s.over /\ o.family # f
  BY DEF Prune, WithoutFamily, SessionRows

(* OpenIn adds one session. *)
LEMMA OneMore ==
  ASSUME NEW s \in SessionRows, NEW n \in Token, NEW last \in Nat, NEW f \in Token
  PROVE  /\ OpenIn(n, last, f, s) \in SessionRows
         /\ OpenIn(n, last, f, s).open = s.open \cup {[token |-> n, expires |-> last, family |-> f]}
         /\ OpenIn(n, last, f, s).spent = s.spent
         /\ OpenIn(n, last, f, s).over = s.over
  BY DEF OpenIn, SessionRows, SessionRecord

LEMMA Fields ==
  ASSUME NEW s \in SessionRows
  PROVE  /\ \A r \in s.open : r.token \in Token /\ r.expires \in Nat /\ r.family \in Token
         /\ \A e \in s.spent : /\ e.token \in Token /\ e.family \in Token /\ e.at \in Nat
                               /\ e.at \in Time /\ e.ends \in Nat /\ e.replayed \in Token \cup {NoToken}
         /\ \A o \in s.over : o.token \in Token /\ o.family \in Token /\ o.until \in Nat
  BY DEF SessionRows, SessionRecord, ConsumedRefresh, SupersededRefresh

(* A rotation: the session of r's token goes, its record and n's session come. *)
LEMMA RotatedRows ==
  ASSUME NEW s \in SessionRows, NEW r \in s.open, NEW n \in Token, NEW now \in Time
  PROVE  LET end == Smaller(now + RefreshLifetime, r.expires)
             z == Rotated(r, n, now, s)
         IN  /\ z \in SessionRows
             /\ end \in Nat /\ end <= r.expires
             /\ z.open = {x \in s.open : x.token # r.token}
                           \cup {[token |-> n, expires |-> end, family |-> r.family]}
             /\ z.spent = s.spent \cup {SpentOf(r, now)}
             /\ z.over = s.over
  <1> DEFINE end == Smaller(now + RefreshLifetime, r.expires)
             k == [open |-> s.open \ SessionOf(r.token, s),
                   spent |-> s.spent \cup {SpentOf(r, now)}, over |-> s.over]
  <1>1. r.token \in Token /\ r.family \in Token /\ r.expires \in Nat
    BY Fields
  <1>2. end \in Nat /\ end <= r.expires
    BY <1>1, SessionConstants DEF Smaller
  <1>3. SpentOf(r, now) \in ConsumedRefresh
    BY <1>1 DEF SpentOf, ConsumedRefresh
  <1>4. k \in SessionRows
    BY <1>3 DEF SessionRows
  <1>5. k.open = {x \in s.open : x.token # r.token}
    BY DEF SessionOf
  <1>6. Rotated(r, n, now, s) = OpenIn(n, end, r.family, k)
    BY DEF Rotated
  <1> HIDE DEF end
  <1>7. k.spent = s.spent \cup {SpentOf(r, now)} /\ k.over = s.over
    OBVIOUS
  <1> HIDE DEF k
  <1>9. \A g \in SessionRows, m \in Nat, f \in Token :
          /\ OpenIn(n, m, f, g) \in SessionRows
          /\ OpenIn(n, m, f, g).open = g.open \cup {[token |-> n, expires |-> m, family |-> f]}
          /\ OpenIn(n, m, f, g).spent = g.spent /\ OpenIn(n, m, f, g).over = g.over
    BY OneMore
  <1>10. OpenIn(n, end, r.family, k) \in SessionRows
    BY <1>1, <1>2, <1>4, <1>9
  <1>11. OpenIn(n, end, r.family, k).open
           = k.open \cup {[token |-> n, expires |-> end, family |-> r.family]}
    BY <1>1, <1>2, <1>4, <1>9
  <1>12. OpenIn(n, end, r.family, k).spent = k.spent /\ OpenIn(n, end, r.family, k).over = k.over
    BY <1>1, <1>2, <1>4, <1>9
  <1> QED BY <1>2, <1>5, <1>7, <1>6, <1>10, <1>11, <1>12 DEF end

(* A replay: the session of an earlier one goes and its token is kept, the   *)
(* record names n, and n's session comes.                                    *)
LEMMA ReplayedRows ==
  ASSUME NEW s \in SessionRows, NEW e \in s.spent, NEW n \in Token, NEW now \in Time
  PROVE  LET end == Smaller(now + RefreshLifetime, e.ends)
             z == Replayed(e, n, now, s)
         IN  /\ z \in SessionRows
             /\ end \in Nat /\ end <= e.ends
             /\ z.open = {x \in s.open : x.token # e.replayed}
                           \cup {[token |-> n, expires |-> end, family |-> e.family]}
             /\ z.spent = {x \in s.spent : x.token # e.token} \cup {[e EXCEPT !.replayed = n]}
             /\ z.over = s.over \cup {[token |-> e.replayed, family |-> x.family, until |-> x.expires] :
                                        x \in {y \in s.open : y.token = e.replayed}}
  <1> DEFINE end == Smaller(now + RefreshLifetime, e.ends)
             closed == {[token |-> e.replayed, family |-> x.family, until |-> x.expires] :
                          x \in {y \in s.open : y.token = e.replayed}}
             k == [open |-> {x \in s.open : x.token # e.replayed}, over |-> s.over \cup closed,
                   spent |-> {x \in s.spent : x.token # e.token} \cup {[e EXCEPT !.replayed = n]}]
  <1>1. e.token \in Token /\ e.family \in Token /\ e.ends \in Nat
    BY Fields
  <1>2. end \in Nat /\ end <= e.ends
    BY <1>1, SessionConstants DEF Smaller
  <1>3. closed \subseteq SupersededRefresh
    BY Fields DEF SupersededRefresh
  <1>4. [e EXCEPT !.replayed = n] \in ConsumedRefresh
    BY DEF SessionRows, ConsumedRefresh
  <1>5. k \in SessionRows
    BY <1>3, <1>4 DEF SessionRows
  <1>6. Supersede(e.replayed, s).open = k.open /\ Supersede(e.replayed, s).over = k.over
    BY DEF Supersede, SessionOf
  <1>7. Replayed(e, n, now, s) = OpenIn(n, end, e.family, k)
    BY <1>6 DEF Replayed, OpenIn
  <1> HIDE DEF end
  <1>8. /\ k.open = {x \in s.open : x.token # e.replayed}
        /\ k.spent = {x \in s.spent : x.token # e.token} \cup {[e EXCEPT !.replayed = n]}
        /\ k.over = s.over \cup closed
    OBVIOUS
  <1> HIDE DEF k
  <1>9. \A g \in SessionRows, m \in Nat, f \in Token :
          /\ OpenIn(n, m, f, g) \in SessionRows
          /\ OpenIn(n, m, f, g).open = g.open \cup {[token |-> n, expires |-> m, family |-> f]}
          /\ OpenIn(n, m, f, g).spent = g.spent /\ OpenIn(n, m, f, g).over = g.over
    BY OneMore
  <1>10. OpenIn(n, end, e.family, k) \in SessionRows
    BY <1>1, <1>2, <1>5, <1>9
  <1>11. OpenIn(n, end, e.family, k).open
           = k.open \cup {[token |-> n, expires |-> end, family |-> e.family]}
    BY <1>1, <1>2, <1>5, <1>9
  <1>12. OpenIn(n, end, e.family, k).spent = k.spent /\ OpenIn(n, end, e.family, k).over = k.over
    BY <1>1, <1>2, <1>5, <1>9
  <1> QED BY <1>2, <1>8, <1>7, <1>10, <1>11, <1>12 DEF end
-----------------------------------------------------------------------------
(***************************************************************************)
(* What the rows of a set keep                                             *)
(***************************************************************************)
LEMMA FewerSound ==
  ASSUME NEW s, NEW b \in History, NEW now \in Time, NEW f, Sound(s, b)
  PROVE  Sound(Prune(now, s), b) /\ Sound(WithoutFamily(f, s), b)
  <1>0. s \in SessionRows
    BY DEF Sound
  <1> DEFINE p == Prune(now, s)
             w == WithoutFamily(f, s)
  <1>1. /\ p \in SessionRows
        /\ \A r : r \in p.open <=> r \in s.open /\ now < r.expires
        /\ \A e : e \in p.spent <=> e \in s.spent /\ now < e.ends
        /\ \A o : o \in p.over <=> o \in s.over /\ now < o.until
    BY <1>0, FewerRows
  <1>2. /\ w \in SessionRows
        /\ \A r : r \in w.open <=> r \in s.open /\ r.family # f
        /\ \A e : e \in w.spent <=> e \in s.spent /\ e.family # f
        /\ \A o : o \in w.over <=> o \in s.over /\ o.family # f
    BY <1>0, FewerRows
  <1> HIDE DEF p, w
  <1>3. AllPlaced(p, b) /\ AllPlaced(w, b)
    BY <1>1, <1>2 DEF Sound, AllPlaced, Placed
  <1>4. SpentOnce(p) /\ SpentOnce(w) /\ Apart(p) /\ Apart(w)
    BY <1>1, <1>2 DEF Sound, SpentOnce, Apart
  <1>5. Linked(p, b)
    <2> SUFFICES ASSUME NEW r \in p.open, b[r.token].how = "replay"
                 PROVE  \E e \in p.spent : /\ e.token = b[r.token].parent /\ e.replayed = r.token
                                           /\ r.expires <= e.ends /\ r.family = e.family
      BY DEF Linked
    <2>1. r \in s.open /\ now < r.expires
      BY <1>1
    <2>2. PICK e \in s.spent : /\ e.token = b[r.token].parent /\ e.replayed = r.token
                               /\ r.expires <= e.ends /\ r.family = e.family
      BY <2>1 DEF Sound, Linked
    <2>3. r.expires \in Nat /\ e.ends \in Nat /\ now \in Nat
      BY <1>0, <2>1, Fields, SessionConstants
    <2>4. now < e.ends
      BY <2>1, <2>2, <2>3
    <2> QED BY <1>1, <2>2, <2>4
  <1>6. Linked(w, b)
    BY <1>2 DEF Sound, Linked
  <1>7. NamesReplay(p, b) /\ NamesReplay(w, b) /\ InTime(p, b) /\ InTime(w, b)
    BY <1>1, <1>2 DEF Sound, NamesReplay, InTime
  <1> QED BY <1>1, <1>2, <1>3, <1>4, <1>5, <1>6, <1>7 DEF Sound, p, w

Fresh(n, s) ==
  /\ \A r \in s.open : r.token # n
  /\ \A e \in s.spent : e.token # n /\ e.replayed # n

(* A token that is minted changes nothing for the sets it is not in. *)
LEMMA MintSound ==
  ASSUME NEW s, NEW b \in History, NEW n \in Token, ~ Minted(b, n), Rooted(b),
         NEW x, NEW c \in History, c = [b EXCEPT ![n] = x], Sound(s, b)
  PROVE  Sound(s, c) /\ Fresh(n, s)
  <1>0. s \in SessionRows
    BY DEF Sound
  <1>1. \A t \in Token : t # n => c[t] = b[t]
    BY DEF History
  <1>2. /\ \A r \in s.open : Minted(b, r.token) /\ r.family = b[r.token].family
        /\ \A e \in s.spent : Minted(b, e.token) /\ e.family = b[e.token].family
        /\ \A o \in s.over : Minted(b, o.token) /\ o.family = b[o.token].family
    BY DEF Sound, AllPlaced, Placed
  <1>3. /\ \A r \in s.open : r.token \in Token /\ r.family \in Token
        /\ \A e \in s.spent : e.token \in Token /\ e.family \in Token /\ e.replayed \in Token \cup {NoToken}
        /\ \A o \in s.over : o.token \in Token /\ o.family \in Token
    BY <1>0, Fields
  <1>4. /\ \A r \in s.open : r.token # n /\ r.family # n
        /\ \A e \in s.spent : e.token # n /\ e.family # n
        /\ \A o \in s.over : o.token # n /\ o.family # n
    BY <1>2, <1>3 DEF Rooted
  <1>5. \A e \in s.spent : e.replayed # n
    <2> SUFFICES ASSUME NEW e \in s.spent, e.replayed = n PROVE FALSE
      OBVIOUS
    <2>1. b[n].how = "replay"
      BY SessionConstants DEF Sound, NamesReplay
    <2> QED BY <2>1 DEF Minted
  <1>6. AllPlaced(s, c)
    BY <1>1, <1>2, <1>3, <1>4 DEF AllPlaced, Placed, Minted
  <1>7. Linked(s, c)
    BY <1>1, <1>3, <1>4 DEF Sound, Linked
  <1>8. NamesReplay(s, c)
    BY <1>1, <1>3, <1>5 DEF Sound, NamesReplay
  <1>9. InTime(s, c)
    BY <1>1, <1>3, <1>4 DEF Sound, InTime, End
  <1> QED BY <1>4, <1>5, <1>6, <1>7, <1>8, <1>9 DEF Sound, Fresh

LEMMA OpenSound ==
  ASSUME NEW s, NEW b \in History, NEW n \in Token, NEW now \in Time, Sound(s, b), Fresh(n, s),
         b[n].how = "login", b[n].family = n, b[n].at = now
  PROVE  Sound(OpenIn(n, now + FamilyLifetime, n, s), b)
  <1> DEFINE z == OpenIn(n, now + FamilyLifetime, n, s)
             new == [token |-> n, expires |-> now + FamilyLifetime, family |-> n]
  <1>0. s \in SessionRows /\ now + FamilyLifetime \in Nat
    BY SessionConstants DEF Sound
  <1>1. z \in SessionRows /\ z.open = s.open \cup {new} /\ z.spent = s.spent /\ z.over = s.over
    BY <1>0, OneMore
  <1>2. new.token = n /\ new.family = n /\ new.expires = now + FamilyLifetime
    OBVIOUS
  <1> HIDE DEF z, new
  <1>3. AllPlaced(z, b)
    BY <1>1, <1>2 DEF Sound, AllPlaced, Placed, Minted
  <1>4. SpentOnce(z) /\ Apart(z)
    BY <1>1, <1>2 DEF Sound, SpentOnce, Apart, Fresh
  <1>5. Linked(z, b) /\ NamesReplay(z, b)
    BY <1>1, <1>2 DEF Sound, Linked, NamesReplay
  <1>6. InTime(z, b)
    <2>1. new.expires <= End(b, new.family)
      BY <1>0, <1>2 DEF End
    <2> QED BY <1>1, <2>1 DEF Sound, InTime
  <1> QED BY <1>1, <1>3, <1>4, <1>5, <1>6 DEF Sound, z

LEMMA RotatedSound ==
  ASSUME NEW s, NEW b \in History, NEW n \in Token, NEW now \in Time, Sound(s, b), Fresh(n, s),
         NEW r \in s.open, b[n].how = "rotation", b[n].family = r.family
  PROVE  Sound(Rotated(r, n, now, s), b)
  <1> DEFINE z == Rotated(r, n, now, s)
             till == Smaller(now + RefreshLifetime, r.expires)
             new == [token |-> n, expires |-> till, family |-> r.family]
             old == SpentOf(r, now)
  <1>0. s \in SessionRows
    BY DEF Sound
  <1>1. /\ z \in SessionRows
        /\ z.open = {x \in s.open : x.token # r.token} \cup {new}
        /\ z.spent = s.spent \cup {old}
        /\ z.over = s.over
        /\ till \in Nat /\ till <= r.expires
    BY <1>0, RotatedRows
  <1>2. /\ new.token = n /\ new.family = r.family /\ new.expires = till
        /\ old.token = r.token /\ old.family = r.family /\ old.ends = r.expires
        /\ old.replayed = NoToken
    BY DEF SpentOf
  <1>3. r.token \in Token /\ r.family \in Token /\ r.expires \in Nat
    BY <1>0, Fields
  <1> HIDE DEF z, new, old, till
  <1>4. AllPlaced(z, b)
    BY <1>1, <1>2 DEF Sound, AllPlaced, Placed, Minted
  <1>5. SpentOnce(z)
    BY <1>1, <1>2 DEF Sound, SpentOnce, Apart
  <1>6. Apart(z)
    BY <1>1, <1>2 DEF Sound, Apart, Fresh
  <1>7. Linked(z, b)
    BY <1>1, <1>2 DEF Sound, Linked
  <1>8. NamesReplay(z, b)
    BY <1>1, <1>2 DEF Sound, NamesReplay
  <1>9. InTime(z, b)
    <2>1. r.expires <= End(b, r.family) /\ End(b, r.family) \in Nat
      BY <1>3, SessionConstants DEF Sound, InTime, End, History
    <2>2. till <= End(b, r.family)
      BY <1>1, <1>3, <2>1
    <2> QED BY <1>1, <1>2, <2>1, <2>2 DEF Sound, InTime
  <1> QED BY <1>1, <1>4, <1>5, <1>6, <1>7, <1>8, <1>9 DEF Sound, z

LEMMA ReplayedSound ==
  ASSUME NEW s, NEW b \in History, NEW n \in Token, NEW now \in Time, Sound(s, b), Fresh(n, s),
         NEW e \in s.spent, b[n].how = "replay", b[n].family = e.family, b[n].parent = e.token
  PROVE  Sound(Replayed(e, n, now, s), b)
  <1> DEFINE z == Replayed(e, n, now, s)
             till == Smaller(now + RefreshLifetime, e.ends)
             new == [token |-> n, expires |-> till, family |-> e.family]
             upd == [e EXCEPT !.replayed = n]
             closed == {[token |-> e.replayed, family |-> x.family, until |-> x.expires] :
                          x \in {y \in s.open : y.token = e.replayed}}
  <1>0. s \in SessionRows
    BY DEF Sound
  <1>1. /\ z \in SessionRows
        /\ z.open = {x \in s.open : x.token # e.replayed} \cup {new}
        /\ z.spent = {x \in s.spent : x.token # e.token} \cup {upd}
        /\ z.over = s.over \cup closed
        /\ till \in Nat /\ till <= e.ends
    BY <1>0, ReplayedRows
  <1>2. /\ new.token = n /\ new.family = e.family /\ new.expires = till
        /\ upd.token = e.token /\ upd.family = e.family /\ upd.ends = e.ends
        /\ upd.replayed = n
    BY <1>0 DEF SessionRows, ConsumedRefresh
  <1>3. e.token \in Token /\ e.family \in Token /\ e.ends \in Nat
    BY <1>0, Fields
  <1>10. \A o \in closed : \E x \in s.open : o.token = x.token /\ o.family = x.family /\ o.until = x.expires
    OBVIOUS
  <1> HIDE DEF z, new, upd, till, closed
  <1>4. AllPlaced(z, b)
    <2>1. Placed(z.open, b)
      BY <1>1, <1>2 DEF Sound, AllPlaced, Placed, Minted
    <2>2. Placed(z.spent, b)
      BY <1>1, <1>2 DEF Sound, AllPlaced, Placed, Minted
    <2>3. Placed(z.over, b)
      BY <1>1, <1>10 DEF Sound, AllPlaced, Placed
    <2> QED BY <2>1, <2>2, <2>3 DEF AllPlaced
  <1>5. SpentOnce(z)
    BY <1>1, <1>2 DEF Sound, SpentOnce
  <1>6. Apart(z)
    BY <1>1, <1>2 DEF Sound, Apart, Fresh
  <1>7. Linked(z, b)
    <2> SUFFICES ASSUME NEW r \in z.open, b[r.token].how = "replay"
                 PROVE  \E y \in z.spent : /\ y.token = b[r.token].parent /\ y.replayed = r.token
                                           /\ r.expires <= y.ends /\ r.family = y.family
      BY DEF Linked
    <2>1. CASE r = new
      <3>1. r.expires <= upd.ends /\ r.family = upd.family /\ upd.token = b[r.token].parent /\ upd.replayed = r.token
        BY <1>1, <1>2, <2>1
      <3> QED BY <1>1, <3>1
    <2>2. CASE r # new
      <3>1. r \in s.open /\ r.token # e.replayed
        BY <1>1, <2>2
      <3>2. PICK y \in s.spent : /\ y.token = b[r.token].parent /\ y.replayed = r.token
                                 /\ r.expires <= y.ends /\ r.family = y.family
        BY <3>1 DEF Sound, Linked
      <3>3. y.token # e.token
        BY <3>1, <3>2 DEF Sound, SpentOnce
      <3> QED BY <1>1, <3>2, <3>3
    <2> QED BY <2>1, <2>2
  <1>8. NamesReplay(z, b)
    BY <1>1, <1>2 DEF Sound, NamesReplay
  <1>9. InTime(z, b)
    <2>1. e.ends <= End(b, e.family) /\ End(b, e.family) \in Nat
      BY <1>3, SessionConstants DEF Sound, InTime, End, History
    <2>2. till <= End(b, e.family)
      BY <1>1, <1>3, <2>1
    <2>3. \A o \in z.over : o.until <= End(b, o.family)
      BY <1>1, <1>10 DEF Sound, InTime
    <2> QED BY <1>1, <1>2, <2>1, <2>2, <2>3 DEF Sound, InTime
  <1> QED BY <1>1, <1>4, <1>5, <1>6, <1>7, <1>8, <1>9 DEF Sound, z

-----------------------------------------------------------------------------
(***************************************************************************)
(* Families that have ended                                                *)
(***************************************************************************)
LEMMA GoneKept ==
  ASSUME NEW s \in SessionRows, NEW dead, Gone(s, dead), NEW n \in Token, NEW now \in Time
  PROVE  /\ Gone(Prune(now, s), dead)
         /\ \A f : Gone(WithoutFamily(f, s), dead \cup {f})
         /\ n \notin dead => Gone(OpenIn(n, now + FamilyLifetime, n, s), dead)
         /\ \A r \in s.open : Gone(Rotated(r, n, now, s), dead)
         /\ \A e \in s.spent : Gone(Replayed(e, n, now, s), dead)
  <1>1. Gone(Prune(now, s), dead)
    BY FewerRows DEF Gone
  <1>2. ASSUME NEW f PROVE Gone(WithoutFamily(f, s), dead \cup {f})
    BY FewerRows DEF Gone
  <1>3. ASSUME n \notin dead PROVE Gone(OpenIn(n, now + FamilyLifetime, n, s), dead)
    <2>1. now + FamilyLifetime \in Nat
      BY SessionConstants
    <2> QED BY <1>3, <2>1, OneMore DEF Gone
  <1>4. ASSUME NEW r \in s.open PROVE Gone(Rotated(r, n, now, s), dead)
    <2> DEFINE z == Rotated(r, n, now, s)
               new == [token |-> n, expires |-> Smaller(now + RefreshLifetime, r.expires), family |-> r.family]
               old == SpentOf(r, now)
    <2>1. /\ z.open = {x \in s.open : x.token # r.token} \cup {new}
          /\ z.spent = s.spent \cup {old}
          /\ z.over = s.over
      BY RotatedRows
    <2>2. new.family = r.family /\ old.family = r.family
      BY DEF SpentOf
    <2> HIDE DEF new, old, z
    <2>3. Gone(z, dead)
      BY <2>1, <2>2 DEF Gone
    <2> QED BY <2>3 DEF z
  <1>5. ASSUME NEW e \in s.spent PROVE Gone(Replayed(e, n, now, s), dead)
    <2> DEFINE z == Replayed(e, n, now, s)
               new == [token |-> n, expires |-> Smaller(now + RefreshLifetime, e.ends), family |-> e.family]
               upd == [e EXCEPT !.replayed = n]
               closed == {[token |-> e.replayed, family |-> x.family, until |-> x.expires] :
                            x \in {y \in s.open : y.token = e.replayed}}
    <2>1. /\ z.open = {x \in s.open : x.token # e.replayed} \cup {new}
          /\ z.spent = {x \in s.spent : x.token # e.token} \cup {upd}
          /\ z.over = s.over \cup closed
      BY ReplayedRows
    <2>2. new.family = e.family /\ upd.family = e.family
      BY DEF SessionRows, ConsumedRefresh
    <2>3. \A o \in closed : \E x \in s.open : o.family = x.family
      OBVIOUS
    <2> HIDE DEF new, upd, closed, z
    <2>4. Gone(z, dead)
      BY <2>1, <2>2, <2>3 DEF Gone
    <2> QED BY <2>4 DEF z
  <1> QED BY <1>1, <1>2, <1>3, <1>4, <1>5

-----------------------------------------------------------------------------
(***************************************************************************)
(* As long as the clock goes forward                                       *)
(***************************************************************************)
LEMMA TimelyFewer ==
  ASSUME NEW s, NEW b \in History, NEW now \in Time, NEW dead, NEW f, Rooted(b),
         Sound(s, b), Timely(s, b, now, dead)
  PROVE  /\ Timely(Prune(now, s), b, now, dead)
         /\ Timely(WithoutFamily(f, s), b, now, dead \cup {f})
  <1>0. s \in SessionRows
    BY DEF Sound
  <1> DEFINE p == Prune(now, s)
             w == WithoutFamily(f, s)
  <1>1. /\ \A r : r \in p.open <=> r \in s.open /\ now < r.expires
        /\ \A e : e \in p.spent <=> e \in s.spent /\ now < e.ends
        /\ \A o : o \in p.over <=> o \in s.over /\ now < o.until
    BY <1>0, FewerRows
  <1>2. /\ \A r : r \in w.open <=> r \in s.open /\ r.family # f
        /\ \A e : e \in w.spent <=> e \in s.spent /\ e.family # f
        /\ \A o : o \in w.over <=> o \in s.over /\ o.family # f
    BY <1>0, FewerRows
  <1>3. /\ \A r \in s.open : r.family = b[r.token].family /\ r.expires = End(b, r.family)
        /\ \A e \in s.spent : e.family = b[e.token].family /\ e.ends = End(b, e.family)
        /\ \A o \in s.over : o.family = b[o.token].family /\ o.until = End(b, o.family)
    BY DEF Sound, AllPlaced, Placed, Timely, Full
  <1> HIDE DEF p, w
  <1>4. Full(p, b) /\ Full(w, b)
    BY <1>1, <1>2 DEF Timely, Full
  <1>5. Graced(p, b, now) /\ Graced(w, b, now)
    BY <1>1, <1>2 DEF Timely, Graced
  <1>6. Known(p, b, now, dead)
    BY <1>1, <1>3 DEF Timely, Known
  <1>7. Known(w, b, now, dead \cup {f})
    BY <1>2, <1>3 DEF Timely, Known
  <1> QED BY <1>4, <1>5, <1>6, <1>7 DEF Timely, p, w

(* What minting n, as c has it beside b, leaves alone. *)
Mints(b, c, n, x) ==
  /\ b \in History /\ c \in History /\ Rooted(b) /\ n \in Token
  /\ ~ Minted(b, n) /\ c = [b EXCEPT ![n] = x]

LEMMA MintLeaves ==
  ASSUME NEW s, NEW b, NEW c, NEW n, NEW x, Mints(b, c, n, x), Sound(s, b)
  PROVE  /\ \A t \in Token : t # n => c[t] = b[t]
         /\ c[n] = x
         /\ \A t \in Token : b[t].sent => t # n /\ b[t].parent # n /\ b[t].family # n
         /\ ~ b[n].sent
         /\ \A t \in Token : b[t].sent => End(c, b[t].family) = End(b, b[t].family)
         /\ \A r \in s.open : r.token # n /\ r.family # n /\ End(c, r.family) = End(b, r.family)
         /\ \A e \in s.spent : /\ e.token # n /\ e.replayed # n
                               /\ e.family # n /\ End(c, e.family) = End(b, e.family)
         /\ \A o \in s.over : o.token # n /\ o.family # n /\ End(c, o.family) = End(b, o.family)
  <1>0. s \in SessionRows
    BY DEF Sound
  <1>1. /\ \A t \in Token : t # n => c[t] = b[t]
        /\ c[n] = x
    BY DEF Mints, History
  <1>2. \A t \in Token : b[t].sent => t # n /\ b[t].parent # n /\ b[t].family # n /\ b[t].family \in Token
    BY SessionConstants DEF Mints, Rooted
  <1>3. Fresh(n, s)
    BY MintSound DEF Mints
  <1>4. /\ \A r \in s.open : r.token \in Token /\ r.family \in Token /\ r.family # n
        /\ \A e \in s.spent : e.token \in Token /\ e.family \in Token /\ e.family # n
        /\ \A o \in s.over : o.token \in Token /\ o.family \in Token /\ o.family # n /\ o.token # n
    BY <1>0, Fields DEF Sound, AllPlaced, Placed, Mints, Rooted
  <1>5. \A f \in Token : f # n => End(c, f) = End(b, f)
    BY <1>1 DEF End
  <1> QED BY <1>1, <1>2, <1>3, <1>4, <1>5 DEF Fresh, Mints, Rooted

LEMMA TimelyUnsent ==
  ASSUME NEW s, NEW b, NEW c, NEW n, NEW x, NEW now \in Time, NEW dead,
         Mints(b, c, n, x), Sound(s, b), Timely(s, b, now, dead), ~ x.sent
  PROVE  Timely(s, c, now, dead)
  <1>1. Full(s, c)
    BY MintLeaves DEF Timely, Full
  <1>2. \A t \in Token : c[t].sent => t # n /\ c[t] = b[t]
    BY MintLeaves
  <1>3. Graced(s, c, now)
    BY <1>2 DEF Timely, Graced
  <1>4. Known(s, c, now, dead)
    BY <1>2, MintLeaves DEF Timely, Known
  <1> QED BY <1>1, <1>3, <1>4 DEF Timely

LEMMA TimelyOpen ==
  ASSUME NEW s, NEW b, NEW c, NEW n, NEW x, NEW now \in Time, NEW dead,
         Mints(b, c, n, x), Sound(s, b), Timely(s, b, now, dead),
         x.how = "login", x.at = now, x.family = n, x.parent = NoToken
  PROVE  Timely(OpenIn(n, now + FamilyLifetime, n, s), c, now, dead)
  <1> DEFINE z == OpenIn(n, now + FamilyLifetime, n, s)
             new == [token |-> n, expires |-> now + FamilyLifetime, family |-> n]
  <1>0. s \in SessionRows /\ now + FamilyLifetime \in Nat /\ n \in Token
    BY SessionConstants DEF Sound, Mints
  <1>1. z.open = s.open \cup {new} /\ z.spent = s.spent /\ z.over = s.over
    BY <1>0, OneMore
  <1>2. new.token = n /\ new.family = n /\ new.expires = now + FamilyLifetime
    OBVIOUS
  <1> HIDE DEF z, new
  <1>3. End(c, n) = now + FamilyLifetime
    BY MintLeaves DEF End
  <1>4. Full(z, c)
    BY <1>1, <1>2, <1>3, MintLeaves DEF Timely, Full
  <1>5. Graced(z, c, now)
    <2>1. \A e \in s.spent : e.at <= now
      BY DEF Timely, Graced
    <2> SUFFICES ASSUME NEW t \in Token, c[t].sent
                 PROVE  /\ \A r \in z.open : r.token # c[t].parent
                        /\ \A e \in z.spent : e.token = c[t].parent =>
                             e.at <= c[t].at /\ (c[t].at = e.at \/ c[t].at < e.at + Grace)
      BY <1>1, <2>1 DEF Graced
    <2>2. CASE t = n
      <3>1. c[t].parent = NoToken
        BY <2>2, MintLeaves
      <3>2. \A r \in s.open : r.token \in Token
        BY <1>0, Fields
      <3>3. \A e \in s.spent : e.token \in Token
        BY <1>0, Fields
      <3> QED BY <1>0, <1>1, <1>2, <3>1, <3>2, <3>3, SessionConstants
    <2>3. CASE t # n
      <3>1. c[t] = b[t] /\ b[t].sent /\ b[t].parent # n
        BY <2>3, MintLeaves
      <3> QED BY <1>1, <1>2, <3>1 DEF Timely, Graced
    <2> QED BY <2>2, <2>3
  <1>6. Known(z, c, now, dead)
    <2> SUFFICES ASSUME NEW t \in Token, c[t].sent, c[t].family \notin dead, now < End(c, c[t].family)
                 PROVE  \/ \E r \in z.open : r.token = t
                        \/ \E e \in z.spent : e.token = t
                        \/ c[t].how = "replay" /\ \E o \in z.over : o.token = t
      BY DEF Known
    <2>1. CASE t = n
      BY <1>1, <1>2, <2>1
    <2>2. CASE t # n
      <3>1. c[t] = b[t] /\ End(c, c[t].family) = End(b, b[t].family)
        BY <2>2, MintLeaves
      <3> QED BY <1>1, <3>1 DEF Timely, Known
    <2> QED BY <2>1, <2>2
  <1> QED BY <1>4, <1>5, <1>6 DEF Timely, z

LEMMA TimelyRotated ==
  ASSUME NEW s, NEW b, NEW c, NEW n, NEW x, NEW now \in Time, NEW dead,
         Mints(b, c, n, x), Sound(s, b), Past(b, now), Timely(s, b, now, dead), NEW r \in s.open,
         x.how = "rotation", x.at = now, x.family = r.family, x.parent = r.token
  PROVE  Timely(Rotated(r, n, now, s), c, now, dead)
  <1> DEFINE z == Rotated(r, n, now, s)
             till == Smaller(now + RefreshLifetime, r.expires)
             new == [token |-> n, expires |-> till, family |-> r.family]
             old == SpentOf(r, now)
  <1>0. s \in SessionRows /\ n \in Token /\ b \in History
    BY DEF Sound, Mints
  <1>1. /\ z.open = {y \in s.open : y.token # r.token} \cup {new}
        /\ z.spent = s.spent \cup {old}
        /\ z.over = s.over
    BY <1>0, RotatedRows
  <1>2. /\ new.token = n /\ new.family = r.family /\ new.expires = till
        /\ old.token = r.token /\ old.family = r.family /\ old.ends = r.expires /\ old.at = now
    BY DEF SpentOf
  <1>3. till = r.expires /\ r.expires = End(b, r.family)
    <2>1. r.family \in Token /\ r.expires \in Nat /\ r.expires = End(b, r.family)
      BY <1>0, Fields DEF Timely, Full
    <2>2. b[r.family].at \in Nat /\ b[r.family].at <= now
      BY <1>0, <2>1 DEF Past, History
    <2> QED BY <2>1, <2>2, SessionConstants DEF Smaller, End
  <1> HIDE DEF z, new, old, till
  <1>4. r.token # n /\ End(c, r.family) = End(b, r.family)
    BY MintLeaves
  <1>5. Full(z, c)
    <2>1. \A y \in z.open : y.expires = End(c, y.family)
      BY <1>1, <1>2, <1>3, <1>4, MintLeaves DEF Timely, Full
    <2>2. \A y \in z.spent : y.ends = End(c, y.family)
      BY <1>1, <1>2, <1>3, <1>4, MintLeaves DEF Timely, Full
    <2>3. \A y \in z.over : y.until = End(c, y.family)
      BY <1>1, MintLeaves DEF Timely, Full
    <2> QED BY <2>1, <2>2, <2>3 DEF Full
  <1>6. Graced(z, c, now)
    <2>1. \A e \in z.spent : e.at <= now
      BY <1>1, <1>2 DEF Timely, Graced
    <2> SUFFICES ASSUME NEW t \in Token, c[t].sent
                 PROVE  /\ \A y \in z.open : y.token # c[t].parent
                        /\ \A e \in z.spent : e.token = c[t].parent =>
                             e.at <= c[t].at /\ (c[t].at = e.at \/ c[t].at < e.at + Grace)
      BY <2>1 DEF Graced
    <2>2. CASE t = n
      <3>1. c[t].parent = r.token /\ c[t].at = now
        BY <2>2, MintLeaves
      <3>2. \A y \in z.open : y.token # c[t].parent
        BY <1>1, <1>2, <1>4, <3>1
      <3>3. \A e \in s.spent : e.token # r.token
        BY DEF Sound, Apart
      <3>4. \A e \in z.spent : e.token = c[t].parent => e.at = now
        BY <1>1, <1>2, <3>1, <3>3
      <3> QED BY <3>1, <3>2, <3>4
    <2>3. CASE t # n
      <3>1. c[t] = b[t] /\ b[t].sent /\ b[t].parent # n
        BY <2>3, MintLeaves
      <3>2. r.token # b[t].parent
        BY <3>1 DEF Timely, Graced
      <3> QED BY <1>1, <1>2, <3>1, <3>2 DEF Timely, Graced
    <2> QED BY <2>2, <2>3
  <1>7. Known(z, c, now, dead)
    <2> SUFFICES ASSUME NEW t \in Token, c[t].sent, c[t].family \notin dead, now < End(c, c[t].family)
                 PROVE  \/ \E y \in z.open : y.token = t
                        \/ \E e \in z.spent : e.token = t
                        \/ c[t].how = "replay" /\ \E o \in z.over : o.token = t
      BY DEF Known
    <2>1. CASE t = n
      BY <1>1, <1>2, <2>1
    <2>2. CASE t # n
      <3>1. c[t] = b[t] /\ End(c, c[t].family) = End(b, b[t].family)
        BY <2>2, MintLeaves
      <3> QED BY <1>1, <1>2, <3>1 DEF Timely, Known
    <2> QED BY <2>1, <2>2
  <1> QED BY <1>5, <1>6, <1>7 DEF Timely, z

LEMMA TimelyReplayed ==
  ASSUME NEW s, NEW b, NEW c, NEW n, NEW x, NEW now \in Time, NEW dead,
         Mints(b, c, n, x), Sound(s, b), Past(b, now), Timely(s, b, now, dead), NEW e \in s.spent,
         x.how = "replay", x.at = now, x.family = e.family, x.parent = e.token, now < e.at + Grace
  PROVE  Timely(Replayed(e, n, now, s), c, now, dead)
  <1> DEFINE z == Replayed(e, n, now, s)
             till == Smaller(now + RefreshLifetime, e.ends)
             new == [token |-> n, expires |-> till, family |-> e.family]
             upd == [e EXCEPT !.replayed = n]
             closed == {[token |-> e.replayed, family |-> y.family, until |-> y.expires] :
                          y \in {w \in s.open : w.token = e.replayed}}
  <1>0. s \in SessionRows /\ n \in Token /\ b \in History
    BY DEF Sound, Mints
  <1>1. /\ z.open = {y \in s.open : y.token # e.replayed} \cup {new}
        /\ z.spent = {y \in s.spent : y.token # e.token} \cup {upd}
        /\ z.over = s.over \cup closed
    BY <1>0, ReplayedRows
  <1>2. /\ new.token = n /\ new.family = e.family /\ new.expires = till
        /\ upd.token = e.token /\ upd.family = e.family /\ upd.ends = e.ends /\ upd.at = e.at
    BY <1>0 DEF SessionRows, ConsumedRefresh
  <1>3. /\ \A o \in closed : \E y \in s.open : o.token = y.token /\ o.family = y.family /\ o.until = y.expires
        /\ \A y \in s.open : y.token = e.replayed => \E o \in closed : o.token = y.token
    <2>1. ASSUME NEW y \in s.open, y.token = e.replayed PROVE \E o \in closed : o.token = y.token
      <3>1. [token |-> e.replayed, family |-> y.family, until |-> y.expires] \in closed
        BY <2>1
      <3> QED BY <2>1, <3>1
    <2>2. \A o \in closed : \E y \in s.open : o.token = y.token /\ o.family = y.family /\ o.until = y.expires
      OBVIOUS
    <2> QED BY <2>1, <2>2
  <1>4. till = e.ends /\ e.ends = End(b, e.family)
    <2>1. e.family \in Token /\ e.ends \in Nat /\ e.ends = End(b, e.family)
      BY <1>0, Fields DEF Timely, Full
    <2>2. b[e.family].at \in Nat /\ b[e.family].at <= now
      BY <1>0, <2>1 DEF Past, History
    <2> QED BY <2>1, <2>2, SessionConstants DEF Smaller, End
  <1> HIDE DEF z, new, upd, till, closed
  <1>5. e.token # n /\ End(c, e.family) = End(b, e.family)
    BY MintLeaves
  <1>6. Full(z, c)
    <2>1. \A y \in z.open : y.expires = End(c, y.family)
      BY <1>1, <1>2, <1>4, <1>5, MintLeaves DEF Timely, Full
    <2>2. \A y \in z.spent : y.ends = End(c, y.family)
      BY <1>1, <1>2, <1>4, <1>5, MintLeaves DEF Timely, Full
    <2>3. \A y \in z.over : y.until = End(c, y.family)
      BY <1>1, <1>3, MintLeaves DEF Timely, Full
    <2> QED BY <2>1, <2>2, <2>3 DEF Full
  <1>7. e.at <= now
    BY DEF Timely, Graced
  <1>8. Graced(z, c, now)
    <2>1. \A y \in z.spent : y.at <= now
      BY <1>1, <1>2, <1>7 DEF Timely, Graced
    <2> SUFFICES ASSUME NEW t \in Token, c[t].sent
                 PROVE  /\ \A y \in z.open : y.token # c[t].parent
                        /\ \A y \in z.spent : y.token = c[t].parent =>
                             y.at <= c[t].at /\ (c[t].at = y.at \/ c[t].at < y.at + Grace)
      BY <2>1 DEF Graced
    <2>2. CASE t = n
      <3>1. c[t].parent = e.token /\ c[t].at = now
        BY <2>2, MintLeaves
      <3>2. \A y \in z.open : y.token # c[t].parent
        BY <1>1, <1>2, <1>5, <3>1 DEF Sound, Apart
      <3>3. \A y \in z.spent : y.token = c[t].parent => y.at = e.at
        BY <1>1, <1>2, <3>1
      <3> QED BY <1>7, <3>1, <3>2, <3>3
    <2>3. CASE t # n
      <3>1. c[t] = b[t] /\ b[t].sent /\ b[t].parent # n
        BY <2>3, MintLeaves
      <3> QED BY <1>1, <1>2, <3>1 DEF Timely, Graced
    <2> QED BY <2>2, <2>3
  <1>9. Known(z, c, now, dead)
    <2> SUFFICES ASSUME NEW t \in Token, c[t].sent, c[t].family \notin dead, now < End(c, c[t].family)
                 PROVE  \/ \E y \in z.open : y.token = t
                        \/ \E y \in z.spent : y.token = t
                        \/ c[t].how = "replay" /\ \E o \in z.over : o.token = t
      BY DEF Known
    <2>1. CASE t = n
      BY <1>1, <1>2, <2>1
    <2>2. CASE t # n
      <3>1. /\ c[t] = b[t]
            /\ \/ \E y \in s.open : y.token = t
               \/ \E y \in s.spent : y.token = t
               \/ b[t].how = "replay" /\ \E o \in s.over : o.token = t
        BY <2>2, MintLeaves DEF Timely, Known
      <3>2. CASE \E y \in s.open : y.token = t
        <4>1. CASE t = e.replayed
          <5>1. b[t].how = "replay"
            BY <4>1, SessionConstants DEF Sound, NamesReplay
          <5> QED BY <1>1, <1>3, <3>1, <3>2, <4>1, <5>1
        <4>2. CASE t # e.replayed
          BY <1>1, <3>2, <4>2
        <4> QED BY <4>1, <4>2
      <3>3. CASE \E y \in s.spent : y.token = t
        BY <1>1, <1>2, <3>3
      <3>4. CASE b[t].how = "replay" /\ \E o \in s.over : o.token = t
        BY <1>1, <3>1, <3>4
      <3> QED BY <3>1, <3>2, <3>3, <3>4
    <2> QED BY <2>1, <2>2
  <1> QED BY <1>6, <1>8, <1>9 DEF Timely, z

(* Pairs minted from one token: a rotated one has no other yet, and a        *)
(* replayed one's are all inside the window of its record.                   *)
LEMMA PairsRotated ==
  ASSUME NEW s, NEW b, NEW c, NEW n, NEW x, NEW now \in Time, NEW dead,
         Mints(b, c, n, x), Sound(s, b), Timely(s, b, now, dead), PairsClose(b), NEW r \in s.open,
         x.parent = r.token
  PROVE  PairsClose(c)
  <1>1. \A t \in Token : b[t].sent => b[t].parent # r.token
    BY DEF Timely, Graced
  <1>2. \A t \in Token : t # n => c[t] = b[t]
    BY MintLeaves
  <1>3. c[n].parent = r.token
    BY MintLeaves
  <1> QED BY <1>1, <1>2, <1>3 DEF PairsClose

LEMMA PairsReplayed ==
  ASSUME NEW s, NEW b, NEW c, NEW n, NEW x, NEW now \in Time, NEW dead,
         Mints(b, c, n, x), Sound(s, b), Timely(s, b, now, dead), PairsClose(b), NEW e \in s.spent,
         x.at = now, x.parent = e.token, now < e.at + Grace
  PROVE  PairsClose(c)
  <1>1. \A t \in Token : b[t].sent /\ b[t].parent = e.token =>
          e.at <= b[t].at /\ (b[t].at = e.at \/ b[t].at < e.at + Grace)
    BY DEF Timely, Graced
  <1>2. e.at <= now /\ e.at \in Nat /\ now \in Nat /\ Grace \in Nat
    BY Fields, SessionConstants DEF Timely, Graced, Sound
  <1>3. \A t \in Token : t # n => c[t] = b[t]
    BY MintLeaves
  <1>4. c[n].parent = e.token /\ c[n].at = now
    BY MintLeaves
  <1>5. \A t \in Token : b[t].at \in Nat
    BY DEF Mints, History
  <1> SUFFICES ASSUME NEW t \in Token, NEW u \in Token, t # u, c[t].sent, c[u].sent,
                      c[t].parent # NoToken, c[t].parent = c[u].parent
               PROVE  c[u].at - c[t].at < Grace
    BY DEF PairsClose
  <1>6. CASE t = n
    <2>1. c[u] = b[u] /\ b[u].parent = e.token /\ c[t].at = now
      BY <1>3, <1>4, <1>6
    <2> QED BY <1>1, <1>2, <1>5, <2>1
  <1>7. CASE u = n
    <2>1. c[t] = b[t] /\ b[t].parent = e.token /\ c[u].at = now
      BY <1>3, <1>4, <1>7
    <2> QED BY <1>1, <1>2, <1>5, <2>1
  <1>8. CASE t # n /\ u # n
    BY <1>3, <1>8 DEF PairsClose
  <1> QED BY <1>6, <1>7, <1>8

-----------------------------------------------------------------------------
(***************************************************************************)
(* Every step keeps the invariant                                          *)
(***************************************************************************)
LEMMA Initially ==
  ASSUME Init PROVE IInv
  <1>1. mem \in SessionRows /\ disk \in SessionRows
    BY DEF Init, NoSessions, SessionRows
  <1>2. NoOne \in [how: {"unborn", "login", "rotation", "replay"},
                   parent: Token \cup {NoToken}, family: Token \cup {NoToken},
                   at: Time, sent: BOOLEAN]
    BY SessionConstants DEF NoOne
  <1>3. born \in History /\ 0 \in Time
    BY <1>2, SessionConstants DEF Init, History
  <1>4. TypeOK
    <2>1. clock \in Time
      BY SessionConstants DEF Init
    <2>2. fails \in 0..MaxFails
      BY SessionConstants DEF Init
    <2>3. ended \subseteq Token /\ lost \subseteq Token /\ stepped \in BOOLEAN
      BY DEF Init
    <2> QED BY <1>1, <1>3, <2>1, <2>2, <2>3 DEF TypeOK, History
  <1>5. \A t \in Token : ~ Minted(born, t) /\ ~ born[t].sent /\ born[t].at = 0 /\ born[t].parent = NoToken
    BY DEF Init, NoOne, Minted
  <1>6. Inv1
    BY <1>3, <1>5 DEF Inv1, Rooted, Init
  <1>7. Inv2
    BY <1>1 DEF Inv2, Init, NoSessions, Sound, AllPlaced, Placed, SpentOnce, Apart, Linked, NamesReplay, InTime
  <1>8. Inv3
    BY DEF Inv3, Init, NoSessions, Gone
  <1>9. Inv4
    BY <1>5 DEF Inv4, Init, NoSessions, Past, PairsClose, Timely, Full, Graced, Known
  <1> QED BY <1>4, <1>6, <1>7, <1>8, <1>9 DEF IInv

(* A request that mints n: its outcome is as sound as what it began with. *)
LEMMA MintStep ==
  ASSUME NEW n \in Token, NEW x, NEW ok \in BOOLEAN, NEW next, IInv,
         Mints(born, born', n, x), x.sent = ok, x.at = clock, x.how # "unborn",
         x.family \in Token /\ Minted(born', x.family), x.parent # NoToken => Minted(born', x.parent),
         Settle(ok, next), UNCHANGED <<clock, ended, lost, stepped>>,
         Sound(next, born'), Gone(next, ended),
         ~ stepped => Timely(next, born', clock, Dead) /\ PairsClose(born')
  PROVE  IInv'
  <1>1. /\ mem' \in {mem, next} /\ disk' \in {disk, next}
        /\ ok => mem' = next /\ disk' = next
    BY DEF Settle
  <1>2. \A t \in Token : t # n => born'[t] = born[t]
    BY DEF Mints, History
  <1>3. born'[n] = x
    BY DEF Mints, History
  <1>4. Sound(mem, born') /\ Sound(disk, born')
    BY MintSound DEF Mints, IInv, Inv2
  <1>5. Inv2'
    BY <1>1, <1>4 DEF Inv2
  <1>6. Inv3'
    BY <1>1 DEF IInv, Inv3
  <1>7. Inv1'
    <2>1. born' \in History /\ Rooted(born) /\ ~ Minted(born, n)
      BY DEF Mints
    <2>2. Rooted(born')
      <3> SUFFICES ASSUME NEW t \in Token
                   PROVE  /\ born'[t].sent => Minted(born', t)
                          /\ Minted(born', t) => born'[t].family \in Token /\ Minted(born', born'[t].family)
                          /\ born'[t].parent # NoToken => Minted(born', t) /\ Minted(born', born'[t].parent)
        BY DEF Rooted
      <3>1. CASE t = n
        BY <1>3, <3>1 DEF Minted
      <3>2. CASE t # n
        <4>1. born'[t] = born[t]
          BY <1>2, <3>2
        <4>2. born[t].parent \in Token \cup {NoToken}
          BY DEF Mints, History
        <4>3. \A u \in Token : Minted(born, u) => Minted(born', u)
          BY <1>2, <2>1 DEF Minted
        <4> QED BY <2>1, <4>1, <4>2, <4>3 DEF Rooted, Minted
      <3> QED BY <3>1, <3>2
    <2>3. \A t \in Token : Minted(born, t) => Minted(born', t)
      BY <1>2, <2>1 DEF Minted
    <2>4. ended \subseteq {t \in Token : Minted(born, t)}
      BY DEF IInv, Inv1
    <2>5. ended' \subseteq {t \in Token : Minted(born', t)}
      BY <2>3, <2>4
    <2> QED BY <2>1, <2>2, <2>5 DEF Inv1
  <1>8. Inv4'
    <2> SUFFICES ASSUME ~ stepped
                 PROVE  /\ Past(born', clock) /\ PairsClose(born')
                        /\ Timely(mem', born', clock, Dead) /\ Timely(disk', born', clock, Dead)
      BY DEF Inv4, Dead
    <2>1. Past(born, clock) /\ Timely(mem, born, clock, Dead) /\ Timely(disk, born, clock, Dead)
      BY DEF IInv, Inv4
    <2>2. clock \in Time
      BY DEF IInv, TypeOK
    <2>3. Past(born', clock)
      BY <1>2, <1>3, <2>1, <2>2 DEF Past
    <2>4. CASE ok
      BY <1>1, <2>3, <2>4
    <2>5. CASE ~ ok
      <3>1. Timely(mem, born', clock, Dead) /\ Timely(disk, born', clock, Dead)
        BY <2>1, <2>2, <2>5, TimelyUnsent DEF IInv, Inv2
      <3> QED BY <1>1, <2>3, <3>1
    <2> QED BY <2>4, <2>5
  <1>9. TypeOK'
    <2>1. mem' \in SessionRows /\ disk' \in SessionRows
      BY <1>5 DEF Inv2, Sound
    <2>2. fails' \in 0..MaxFails
      BY SessionConstants DEF IInv, TypeOK, Settle
    <2>3. born' \in History
      BY DEF Mints
    <2> QED BY <2>1, <2>2, <2>3 DEF IInv, TypeOK, History
  <1> QED BY <1>5, <1>6, <1>7, <1>8, <1>9 DEF IInv

(* What a request starts from: the published set without what has expired. *)
LEMMA PrunedSound ==
  ASSUME IInv
  PROVE  /\ Pruned \in SessionRows /\ Sound(Pruned, born) /\ Gone(Pruned, ended)
         /\ ~ stepped => Timely(Pruned, born, clock, Dead)
         /\ clock \in Time /\ born \in History
  <1>1. clock \in Time /\ born \in History /\ Rooted(born) /\ Sound(mem, born) /\ Gone(mem, ended)
    BY DEF IInv, TypeOK, Inv1, Inv2, Inv3
  <1>2. Sound(Pruned, born)
    BY <1>1, FewerSound DEF Pruned
  <1>3. Gone(Pruned, ended)
    BY <1>1, FewerRows DEF Pruned, Gone, Sound
  <1>4. ASSUME ~ stepped PROVE Timely(Pruned, born, clock, Dead)
    <2>1. Timely(mem, born, clock, Dead)
      BY <1>4 DEF IInv, Inv4
    <2> QED BY <1>1, <2>1, TimelyFewer DEF Pruned
  <1> QED BY <1>1, <1>2, <1>3, <1>4 DEF Sound

LEMMA MintIs ==
  ASSUME IInv, NEW n \in Token, NEW how \in {"login", "rotation", "replay"}, NEW ok \in BOOLEAN,
         NEW parent \in Token \cup {NoToken}, NEW family \in Token, Mint(n, how, parent, family, ok)
  PROVE  LET x == [how |-> how, parent |-> parent, family |-> family, at |-> clock, sent |-> ok]
         IN  Mints(born, born', n, x)
  <1> DEFINE x == [how |-> how, parent |-> parent, family |-> family, at |-> clock, sent |-> ok]
  <1>1. born \in History /\ Rooted(born) /\ clock \in Time
    BY DEF IInv, Inv1, TypeOK
  <1>2. x \in [how: {"unborn", "login", "rotation", "replay"}, parent: Token \cup {NoToken},
               family: Token \cup {NoToken}, at: Time, sent: BOOLEAN]
    BY <1>1
  <1> HIDE DEF x
  <1>3. born' = [born EXCEPT ![n] = x]
    BY DEF Mint, x
  <1>4. born' \in History
    BY <1>1, <1>2, <1>3 DEF History
  <1>5. ~ Minted(born, n)
    BY DEF Mint, NoOne, Minted
  <1> QED BY <1>1, <1>3, <1>4, <1>5 DEF Mints, x

LEMMA CreateStep ==
  ASSUME IInv, NEW n \in Token, NEW ok \in BOOLEAN, CreateSession(n, ok)
  PROVE  IInv'
  <1> DEFINE x == [how |-> "login", parent |-> NoToken, family |-> n, at |-> clock, sent |-> ok]
             next == OpenIn(n, clock + FamilyLifetime, n, Pruned)
  <1>1. Mints(born, born', n, x)
    BY MintIs DEF CreateSession
  <1>2. x.how = "login" /\ x.parent = NoToken /\ x.family = n /\ x.at = clock /\ x.sent = ok
    OBVIOUS
  <1> HIDE DEF x
  <1>3. born'[n] = x
    BY <1>1 DEF Mints, History
  <1>4. Sound(Pruned, born') /\ Fresh(n, Pruned)
    BY <1>1, PrunedSound, MintSound DEF Mints
  <1>5. Sound(next, born')
    BY <1>1, <1>2, <1>3, <1>4, PrunedSound, OpenSound DEF Mints
  <1>6. n \notin ended
    BY <1>1 DEF IInv, Inv1, Mints
  <1>7. Gone(next, ended)
    BY <1>6, PrunedSound, GoneKept
  <1>8. ASSUME ~ stepped PROVE Timely(next, born', clock, Dead) /\ PairsClose(born')
    <2>1. Timely(next, born', clock, Dead)
      BY <1>1, <1>2, <1>8, PrunedSound, TimelyOpen
    <2>2. \A t \in Token : t # n => born'[t] = born[t]
      BY <1>1 DEF Mints, History
    <2>3. PairsClose(born)
      BY <1>8 DEF IInv, Inv4
    <2>4. PairsClose(born')
      BY <1>2, <1>3, <2>2, <2>3 DEF PairsClose
    <2> QED BY <2>1, <2>4
  <1>9. Settle(ok, next) /\ UNCHANGED <<clock, ended, lost, stepped>>
    BY DEF CreateSession
  <1>10. Minted(born', x.family)
    BY <1>2, <1>3 DEF Minted
  <1> HIDE DEF next
  <1> QED BY <1>1, <1>2, <1>5, <1>7, <1>8, <1>9, <1>10, MintStep

LEMMA RotatesStep ==
  ASSUME IInv, NEW t \in Token, NEW n \in Token, NEW ok \in BOOLEAN, RefreshRotates(t, n, ok)
  PROVE  IInv'
  <1>1. PICK r \in Pruned.open : /\ r.token = t
                                 /\ Mint(n, "rotation", t, r.family, ok)
                                 /\ Settle(ok, Rotated(r, n, clock, Pruned))
    BY DEF RefreshRotates, LiveRefresh, SessionOf
  <1>2. r.token \in Token /\ r.family \in Token
    BY PrunedSound, Fields
  <1>3. Minted(born, r.token) /\ Minted(born, r.family)
    BY <1>2, PrunedSound DEF Sound, AllPlaced, Placed, IInv, Inv1, Rooted
  <1> DEFINE x == [how |-> "rotation", parent |-> t, family |-> r.family, at |-> clock, sent |-> ok]
             next == Rotated(r, n, clock, Pruned)
  <1>4. Mints(born, born', n, x)
    BY <1>1, <1>2, MintIs
  <1>5. x.how = "rotation" /\ x.parent = r.token /\ x.family = r.family /\ x.at = clock /\ x.sent = ok
    BY <1>1
  <1> HIDE DEF x
  <1>6. born'[n] = x /\ \A u \in Token : u # n => born'[u] = born[u]
    BY <1>4 DEF Mints, History
  <1>7. Sound(Pruned, born') /\ Fresh(n, Pruned)
    BY <1>4, PrunedSound, MintSound DEF Mints
  <1>8. Sound(next, born')
    BY <1>4, <1>5, <1>6, <1>7, PrunedSound, RotatedSound DEF Mints
  <1>9. Gone(next, ended)
    BY PrunedSound, GoneKept
  <1>10. ASSUME ~ stepped PROVE Timely(next, born', clock, Dead) /\ PairsClose(born')
    <2>1. Past(born, clock) /\ PairsClose(born) /\ Timely(Pruned, born, clock, Dead)
      BY <1>10, PrunedSound DEF IInv, Inv4
    <2>2. Timely(next, born', clock, Dead)
      BY <1>4, <1>5, <2>1, PrunedSound, TimelyRotated
    <2>3. PairsClose(born')
      BY <1>4, <1>5, <2>1, PrunedSound, PairsRotated
    <2> QED BY <2>2, <2>3
  <1>11. Settle(ok, next) /\ UNCHANGED <<clock, ended, lost, stepped>>
    BY <1>1 DEF RefreshRotates
  <1>12. Minted(born', x.family) /\ Minted(born', x.parent)
    BY <1>2, <1>3, <1>4, <1>5, <1>6 DEF Mints, Minted
  <1> HIDE DEF next
  <1> QED BY <1>2, <1>4, <1>5, <1>8, <1>9, <1>10, <1>11, <1>12, MintStep

LEMMA ReplaysStep ==
  ASSUME IInv, NEW t \in Token, NEW n \in Token, NEW ok \in BOOLEAN, RefreshReplays(t, n, ok)
  PROVE  IInv'
  <1>1. PICK e \in Pruned.spent : /\ e.token = t /\ clock < e.at + Grace
                                  /\ Mint(n, "replay", t, e.family, ok)
                                  /\ Settle(ok, Replayed(e, n, clock, Pruned))
    BY DEF RefreshReplays, Consumed
  <1>2. e.token \in Token /\ e.family \in Token
    BY PrunedSound, Fields
  <1>3. Minted(born, e.token) /\ Minted(born, e.family)
    BY <1>2, PrunedSound DEF Sound, AllPlaced, Placed, IInv, Inv1, Rooted
  <1> DEFINE x == [how |-> "replay", parent |-> t, family |-> e.family, at |-> clock, sent |-> ok]
             next == Replayed(e, n, clock, Pruned)
  <1>4. Mints(born, born', n, x)
    BY <1>1, <1>2, MintIs
  <1>5. x.how = "replay" /\ x.parent = e.token /\ x.family = e.family /\ x.at = clock /\ x.sent = ok
    BY <1>1
  <1> HIDE DEF x
  <1>6. born'[n] = x /\ \A u \in Token : u # n => born'[u] = born[u]
    BY <1>4 DEF Mints, History
  <1>7. Sound(Pruned, born') /\ Fresh(n, Pruned)
    BY <1>4, PrunedSound, MintSound DEF Mints
  <1>8. Sound(next, born')
    BY <1>4, <1>5, <1>6, <1>7, PrunedSound, ReplayedSound DEF Mints
  <1>9. Gone(next, ended)
    BY PrunedSound, GoneKept
  <1>10. ASSUME ~ stepped PROVE Timely(next, born', clock, Dead) /\ PairsClose(born')
    <2>1. Past(born, clock) /\ PairsClose(born) /\ Timely(Pruned, born, clock, Dead)
      BY <1>10, PrunedSound DEF IInv, Inv4
    <2>2. Timely(next, born', clock, Dead)
      BY <1>1, <1>4, <1>5, <2>1, PrunedSound, TimelyReplayed
    <2>3. PairsClose(born')
      BY <1>1, <1>4, <1>5, <2>1, PrunedSound, PairsReplayed
    <2> QED BY <2>2, <2>3
  <1>11. Settle(ok, next) /\ UNCHANGED <<clock, ended, lost, stepped>>
    BY <1>1 DEF RefreshReplays
  <1>12. Minted(born', x.family) /\ Minted(born', x.parent)
    BY <1>2, <1>3, <1>4, <1>5, <1>6 DEF Mints, Minted
  <1> HIDE DEF next
  <1> QED BY <1>2, <1>4, <1>5, <1>8, <1>9, <1>10, <1>11, <1>12, MintStep

(* A request that ends family f. *)
LEMMA EndStep ==
  ASSUME IInv, NEW f \in Token, Minted(born, f), NEW ok \in BOOLEAN, Ends(f, ok)
  PROVE  IInv'
  <1> DEFINE next == WithoutFamily(f, Pruned)
  <1>1. /\ mem' \in {mem, next} /\ disk' \in {disk, next}
        /\ ok => mem' = next /\ disk' = next
        /\ ~ ok => mem' = mem
    BY DEF Ends, Settle
  <1>2. /\ ended' = (IF ok THEN ended \cup {f} ELSE ended)
        /\ Dead' = Dead \cup {f} /\ lost' \subseteq lost \cup {f}
        /\ UNCHANGED <<clock, born, stepped>>
    BY DEF Ends, Dead
  <1>3. Sound(next, born) /\ Sound(mem, born) /\ Sound(disk, born)
    BY PrunedSound, FewerSound DEF IInv, Inv2
  <1>4. Gone(next, ended \cup {f}) /\ Gone(next, ended) /\ Gone(mem, ended) /\ Gone(disk, ended)
    <2>1. Gone(next, ended \cup {f})
      BY PrunedSound, GoneKept
    <2> QED BY <2>1 DEF Gone, IInv, Inv3
  <1>5. ASSUME ~ stepped
        PROVE  /\ Timely(next, born, clock, Dead \cup {f})
               /\ Timely(mem, born, clock, Dead \cup {f}) /\ Timely(disk, born, clock, Dead \cup {f})
    <2>1. Timely(Pruned, born, clock, Dead) /\ Rooted(born)
      BY <1>5, PrunedSound DEF IInv, Inv1
    <2>2. Timely(next, born, clock, Dead \cup {f})
      BY <2>1, PrunedSound, TimelyFewer
    <2>3. Timely(mem, born, clock, Dead) /\ Timely(disk, born, clock, Dead)
      BY <1>5 DEF IInv, Inv4
    <2> QED BY <2>2, <2>3 DEF Timely, Known
  <1> HIDE DEF next
  <1>6. Inv1'
    <2>1. ended' \subseteq {t \in Token : Minted(born, t)}
      BY <1>2 DEF IInv, Inv1
    <2> QED BY <1>2, <2>1 DEF IInv, Inv1
  <1>7. Inv2'
    BY <1>1, <1>2, <1>3 DEF Inv2
  <1>8. Inv3'
    <2>1. CASE ok
      BY <1>1, <1>2, <1>4, <2>1 DEF Inv3
    <2>2. CASE ~ ok
      BY <1>1, <1>2, <1>4, <2>2 DEF Inv3
    <2> QED BY <2>1, <2>2
  <1>9. Inv4'
    <2> SUFFICES ASSUME ~ stepped'
                 PROVE  /\ Past(born', clock') /\ PairsClose(born')
                        /\ Timely(mem', born', clock', Dead') /\ Timely(disk', born', clock', Dead')
      BY DEF Inv4
    <2>1. Past(born, clock) /\ PairsClose(born)
      BY <1>2 DEF IInv, Inv4
    <2> QED BY <1>1, <1>2, <1>5, <2>1
  <1>10. TypeOK'
    <2>1. mem' \in SessionRows /\ disk' \in SessionRows
      BY <1>7 DEF Inv2, Sound
    <2>2. fails' \in 0..MaxFails
      BY SessionConstants DEF IInv, TypeOK, Ends, Settle
    <2>3. ended' \subseteq Token /\ lost' \subseteq Token
      BY <1>2 DEF IInv, TypeOK
    <2> QED BY <1>2, <2>1, <2>2, <2>3 DEF IInv, TypeOK
  <1> QED BY <1>6, <1>7, <1>8, <1>9, <1>10 DEF IInv

LEMMA RevokesStep ==
  ASSUME IInv, NEW t \in Token, NEW ok \in BOOLEAN, RefreshRevokes(t, ok)
  PROVE  IInv'
  <1>1. PICK e \in Pruned.spent : Ends(e.family, ok)
    BY DEF RefreshRevokes, Consumed
  <1>2. e.token \in Token /\ e.family \in Token
    BY PrunedSound, Fields
  <1>3. Minted(born, e.family)
    BY <1>2, PrunedSound DEF Sound, AllPlaced, Placed, IInv, Inv1, Rooted
  <1> QED BY <1>1, <1>2, <1>3, EndStep

LEMMA DeleteStep ==
  ASSUME IInv, NEW t \in Token, NEW ok \in BOOLEAN, DeleteSession(t, ok)
  PROVE  IInv'
  <1>1. PICK f \in FamilyOf(clock, t, Pruned) : Ends(f, ok)
    BY DEF DeleteSession
  <1>2. \E x \in Pruned.open \cup Pruned.spent \cup Pruned.over : x.family = f
    <2>1. f \in {r.family : r \in SessionOf(t, Pruned)} \cup {e.family : e \in Consumed(clock, t, Pruned)}
                  \cup {o.family : o \in Superseded(clock, t, Pruned)}
      BY <1>1 DEF FamilyOf
    <2> QED BY <2>1 DEF SessionOf, Consumed, Superseded
  <1>3. PICK x \in Pruned.open \cup Pruned.spent \cup Pruned.over : x.family = f
    BY <1>2
  <1>4. x.token \in Token /\ x.family \in Token
    BY PrunedSound, Fields
  <1>5. Minted(born, x.token) /\ x.family = born[x.token].family
    BY PrunedSound DEF Sound, AllPlaced, Placed
  <1>6. Minted(born, f) /\ f \in Token
    BY <1>3, <1>4, <1>5 DEF IInv, Inv1, Rooted
  <1> QED BY <1>1, <1>6, EndStep

LEMMA RestartStep ==
  ASSUME IInv, Restart
  PROVE  IInv'
  <1>1. mem' = Prune(clock, disk) /\ UNCHANGED <<clock, disk, fails, born, ended, lost, stepped>>
    BY DEF Restart
  <1>2. clock \in Time /\ born \in History /\ Rooted(born) /\ Sound(disk, born) /\ Gone(disk, ended)
    BY DEF IInv, TypeOK, Inv1, Inv2, Inv3
  <1>3. Sound(mem', born)
    BY <1>1, <1>2, FewerSound
  <1>4. Gone(mem', ended)
    BY <1>1, <1>2, FewerRows DEF Gone, Sound
  <1>5. ASSUME ~ stepped PROVE Timely(mem', born, clock, Dead)
    <2>1. Timely(disk, born, clock, Dead)
      BY <1>5 DEF IInv, Inv4
    <2> QED BY <1>1, <1>2, <2>1, TimelyFewer
  <1>6. Dead' = Dead
    BY <1>1 DEF Dead
  <1>7. TypeOK'
    <2>1. mem' \in SessionRows
      BY <1>3 DEF Sound
    <2> QED BY <1>1, <2>1 DEF IInv, TypeOK
  <1>8. Inv1'
    BY <1>1 DEF IInv, Inv1
  <1>9. Inv2' /\ Inv3'
    BY <1>1, <1>2, <1>3, <1>4 DEF Inv2, Inv3
  <1>10. Inv4'
    BY <1>1, <1>5, <1>6 DEF IInv, Inv4
  <1> QED BY <1>7, <1>8, <1>9, <1>10 DEF IInv

LEMMA TickStep ==
  ASSUME IInv, Tick
  PROVE  IInv'
  <1>1. clock < MaxTime /\ clock' = clock + 1
        /\ UNCHANGED <<mem, disk, fails, born, ended, lost, stepped>>
    BY DEF Tick
  <1>2. clock \in Time /\ born \in History
    BY DEF IInv, TypeOK, Inv1
  <1>3. Dead' = Dead
    BY <1>1 DEF Dead
  <1>4. ASSUME NEW s, Timely(s, born, clock, Dead), Sound(s, born), Rooted(born)
        PROVE  Timely(s, born, clock + 1, Dead)
    <2>1. Graced(s, born, clock + 1)
      <3>1. \A e \in s.spent : e.at \in Nat /\ e.at <= clock
        BY <1>4, Fields DEF Timely, Graced, Sound
      <3> QED BY <1>2, <1>4, <3>1 DEF Timely, Graced
    <2>2. Known(s, born, clock + 1, Dead)
      <3>1. \A t \in Token : born[t].sent => born[t].family \in Token /\ End(born, born[t].family) \in Nat
        BY <1>2, <1>4, SessionConstants DEF Rooted, End, History
      <3> QED BY <1>2, <1>4, <3>1 DEF Timely, Known
    <2> QED BY <1>4, <2>1, <2>2 DEF Timely
  <1>5. TypeOK'
    <2>1. clock' \in Time
      BY <1>1, <1>2, SessionConstants
    <2> QED BY <1>1, <2>1 DEF IInv, TypeOK
  <1>6. Inv1' /\ Inv2' /\ Inv3'
    BY <1>1 DEF IInv, Inv1, Inv2, Inv3
  <1>7. Inv4'
    <2> SUFFICES ASSUME ~ stepped
                 PROVE  /\ Past(born, clock + 1) /\ PairsClose(born)
                        /\ Timely(mem, born, clock + 1, Dead) /\ Timely(disk, born, clock + 1, Dead)
      BY <1>1, <1>3 DEF Inv4
    <2>1. Past(born, clock) /\ PairsClose(born)
          /\ Timely(mem, born, clock, Dead) /\ Timely(disk, born, clock, Dead)
      BY DEF IInv, Inv4
    <2>2. Past(born, clock + 1)
      <3>1. clock \in Nat /\ \A t \in Token : born[t].at \in Nat
        BY <1>2, SessionConstants DEF History
      <3>2. \A t \in Token : born[t].at <= clock
        BY <2>1 DEF Past
      <3>3. \A a, c \in Nat : a <= c => a <= c + 1
        OBVIOUS
      <3>4. \A t \in Token : born[t].at <= clock + 1
        BY <3>1, <3>2, <3>3
      <3> QED BY <3>4 DEF Past
    <2> QED BY <1>4, <2>1, <2>2 DEF IInv, Inv1, Inv2
  <1> QED BY <1>5, <1>6, <1>7 DEF IInv

LEMMA SetBackStep ==
  ASSUME IInv, SetBack
  PROVE  IInv'
  <1>1. stepped' = TRUE /\ clock' \in 0..(clock - 1)
        /\ UNCHANGED <<mem, disk, fails, born, ended, lost>>
    BY DEF SetBack
  <1>2. TypeOK'
    <2>1. clock' \in Time
      BY <1>1, SessionConstants DEF IInv, TypeOK
    <2>2. stepped' \in BOOLEAN
      BY <1>1
    <2> QED BY <1>1, <2>1, <2>2 DEF IInv, TypeOK
  <1>3. Inv1' /\ Inv2' /\ Inv3'
    BY <1>1 DEF IInv, Inv1, Inv2, Inv3
  <1>4. Inv4'
    BY <1>1 DEF Inv4
  <1> QED BY <1>2, <1>3, <1>4 DEF IInv

LEMMA Inductive ==
  ASSUME IInv, [Next]_vars
  PROVE  IInv'
  <1>1. CASE Request
    BY <1>1, CreateStep, RotatesStep, ReplaysStep, RevokesStep, DeleteStep DEF Request
  <1>2. CASE Restart
    BY <1>2, RestartStep
  <1>3. CASE Tick
    BY <1>3, TickStep
  <1>4. CASE SetBack
    BY <1>4, SetBackStep
  <1>5. CASE UNCHANGED vars
    BY <1>5 DEF vars, IInv, TypeOK, Inv1, Inv2, Inv3, Inv4, Dead
  <1> QED BY <1>1, <1>2, <1>3, <1>4, <1>5 DEF Next

(* The inductive invariant holds of every state of every behaviour. *)
THEOREM Invariance == Spec => []IInv
  <1>1. Init => IInv
    BY Initially
  <1>2. IInv /\ [Next]_vars => IInv'
    BY Inductive
  <1> QED BY <1>1, <1>2, PTL DEF Spec
-----------------------------------------------------------------------------
(***************************************************************************)
(* What it says                                                            *)
(***************************************************************************)
(* A family that a request ended never has a row again, in the published   *)
(* set or in the file: storeSessionClose and the pruning of every request. *)
THEOREM EndedIsGone == Spec => []EndedFamilyIsGone
  <1>1. IInv => EndedFamilyIsGone
    BY DEF IInv, Inv3, Gone, EndedFamilyIsGone, Families
  <1> QED BY <1>1, Invariance, PTL

(* A token that was sent is remembered until its family ends, unless the   *)
(* clock was set back: what storeRefreshActive answers from.               *)
THEOREM SentStaysKnown == Spec => []SentIsRemembered
  <1>1. IInv => SentIsRemembered
    <2> SUFFICES ASSUME IInv, NEW t \in Token, born[t].sent, born[t].family \notin ended \cup lost,
                        clock < FamilyEnd(born[t].family), ~ stepped
                 PROVE  \/ t \in Tokens(mem.open) \cup Tokens(mem.spent)
                        \/ born[t].how = "replay" /\ t \in Tokens(mem.over)
      BY DEF SentIsRemembered
    <2>1. Known(mem, born, clock, Dead)
      BY DEF IInv, Inv4, Timely
    <2>2. clock < End(born, born[t].family) /\ born[t].family \notin Dead
      BY DEF FamilyEnd, End, Dead
    <2>3. \/ \E r \in mem.open : r.token = t
          \/ \E e \in mem.spent : e.token = t
          \/ born[t].how = "replay" /\ \E o \in mem.over : o.token = t
      BY <2>1, <2>2 DEF Known
    <2> QED BY <2>3 DEF Tokens
  <1> QED BY <1>1, Invariance, PTL

(* At most one session of those a token's replays opened is open: what      *)
(* supersede and the record's "replayed" are for.                           *)
THEOREM OneReplayOpen == Spec => []OneReplayPerToken
  <1>1. IInv => OneReplayPerToken
    <2> SUFFICES ASSUME IInv, NEW r \in mem.open, NEW q \in mem.open,
                        born[r.token].how = "replay", born[q.token].how = "replay",
                        born[r.token].parent = born[q.token].parent
                 PROVE  r.token = q.token
      BY DEF OneReplayPerToken, Tokens
    <2>1. Linked(mem, born) /\ SpentOnce(mem)
      BY DEF IInv, Inv2, Sound
    <2>2. PICK e \in mem.spent : e.token = born[r.token].parent /\ e.replayed = r.token
      BY <2>1 DEF Linked
    <2>3. PICK x \in mem.spent : x.token = born[q.token].parent /\ x.replayed = q.token
      BY <2>1 DEF Linked
    <2>4. e = x
      BY <2>1, <2>2, <2>3 DEF SpentOnce
    <2> QED BY <2>2, <2>3, <2>4
  <1> QED BY <1>1, Invariance, PTL

(* Two pairs that answered one token are less than a grace window apart,    *)
(* unless the clock was set back: a replay keeps its record's time.         *)
THEOREM GraceHolds == Spec => []GraceIsNotExtended
  <1>1. IInv => GraceIsNotExtended
    BY DEF IInv, Inv4, PairsClose, GraceIsNotExtended
  <1> QED BY <1>1, Invariance, PTL

(* No row outlives the end its family's login gave it, however the clock    *)
(* is set.                                                                  *)
THEOREM FamilyEndsOnTime == Spec => []FamilyEndsInTime
  <1>1. IInv => FamilyEndsInTime
    BY DEF IInv, Inv2, Sound, InTime, FamilyEndsInTime, End, FamilyEnd
  <1> QED BY <1>1, Invariance, PTL
=============================================================================
