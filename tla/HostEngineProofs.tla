-------------------------- MODULE HostEngineProofs --------------------------
(***************************************************************************)
(* Theorems about the lobby, for every number of profiles, every legal     *)
(* size of room and whatever sizes clients ask for.                        *)
(***************************************************************************)
EXTENDS HostEngine, SequenceTheorems, FiniteSetTheorems, TLAPS

-----------------------------------------------------------------------------
(* The ids of a room                                                        *)

\* An id that is not there yet goes to the end.
LEMMA AppendFacts ==
    ASSUME NEW S, NEW s \in Seq(S), NEW e \in S, IsInjective(s), e \notin Range(s)
    PROVE  /\ Append(s, e) \in Seq(S) /\ Len(Append(s, e)) = Len(s) + 1
           /\ Range(Append(s, e)) = Range(s) \cup {e}
           /\ IsInjective(Append(s, e))
           /\ s # <<>> => Head(Append(s, e)) = Head(s)
<1> DEFINE t == Append(s, e)
<1>1. /\ t \in Seq(S) /\ Len(t) = Len(s) + 1 /\ DOMAIN t = 1..Len(t) /\ DOMAIN s = 1..Len(s)
      /\ \A i \in 1..Len(s) : t[i] = s[i]
      /\ t[Len(s) + 1] = e /\ Len(s) \in Nat
  BY AppendProperties, LenProperties
<1>2. Head(t) = t[1] /\ (s # <<>> => Head(s) = s[1] /\ Len(s) >= 1)
  BY <1>1
<1> HIDE DEF t
<1>3. Range(t) = Range(s) \cup {e}
  BY <1>1 DEF Range
<1>4. IsInjective(t)
  BY <1>1 DEF IsInjective, Range
<1>5. s # <<>> => Head(t) = Head(s)
  BY <1>1, <1>2
<1> QED
  BY <1>1, <1>3, <1>4, <1>5 DEF t

\* An id that is not the first one goes, the others move up.
LEMMA RemoveFirstFacts ==
    ASSUME NEW S, NEW s \in Seq(S), IsInjective(s), NEW e \in Range(s), e # Head(s)
    PROVE  /\ RemoveFirst(s, e) \in Seq(S) /\ RemoveFirst(s, e) # <<>>
           /\ Len(RemoveFirst(s, e)) = Len(s) - 1
           /\ Range(RemoveFirst(s, e)) = Range(s) \ {e}
           /\ IsInjective(RemoveFirst(s, e))
           /\ Head(RemoveFirst(s, e)) = Head(s)
<1>1. DOMAIN s = 1..Len(s) /\ Len(s) \in Nat /\ s \in [1..Len(s) -> S]
  BY LenProperties
<1>2. PICK k \in 1..Len(s) : s[k] = e
  BY <1>1 DEF Range
<1>3. \A i \in 1..Len(s) : s[i] = e <=> i = k
  BY <1>1, <1>2 DEF IsInjective
<1>4. k > 1 /\ Head(s) = s[1]
  BY <1>1, <1>2
<1> DEFINE t == RemoveFirst(s, e)
           a == SubSeq(s, 1, k - 1)
           b == SubSeq(s, k + 1, Len(s))
<1>5. t = a \o b
  <2> DEFINE I == {i \in 1..Len(s) : s[i] = e}
  <2>1. I = {k}
    BY <1>2, <1>3
  <2>2. Min(I) = k
    <3>1. \A x \in I : \A y \in I : x <= y
      BY <2>1, <1>2
    <3>2. Min(I) \in I
      BY <3>1, <2>1 DEF Min
    <3> QED BY <3>2, <2>1
  <2> HIDE DEF I
  <2>3. t = RemoveAt(s, IF I # {} THEN Min(I) ELSE 0)
    BY <1>2 DEF RemoveFirst, SelectInSeq, I
  <2> QED BY <2>1, <2>2, <2>3 DEF RemoveAt
<1>6. /\ a \in Seq(S) /\ Len(a) = k - 1 /\ \A i \in 1..(k - 1) : a[i] = s[i]
      /\ b \in Seq(S) /\ Len(b) = Len(s) - k
      /\ \A i \in 1..(Len(s) - k) : b[i] = s[i + k]
  <2>1. \A i \in 1..(k - 1) : s[i] \in S
    BY <1>1, <1>2
  <2>2. \A i \in (k + 1)..Len(s) : s[i] \in S
    BY <1>1, <1>2
  <2>3. a \in Seq(S) /\ Len(a) = k - 1 /\ \A i \in 1..(k - 1) : a[i] = s[i]
    BY <1>1, <1>2, <1>4, <2>1, SubSeqProperties
  <2>4. b \in Seq(S) /\ Len(b) = Len(s) - k /\ \A i \in 1..(Len(s) - k) : b[i] = s[i + k]
    BY <1>1, <1>2, <2>2, SubSeqProperties
  <2> QED BY <2>3, <2>4
<1> HIDE DEF a, b, t
<1>7. /\ t \in Seq(S) /\ Len(t) = Len(s) - 1
      /\ \A i \in 1..(Len(s) - 1) : t[i] = IF i < k THEN s[i] ELSE s[i + 1]
  <2>1. /\ t \in Seq(S) /\ Len(t) = Len(a) + Len(b)
        /\ \A i \in 1..(Len(a) + Len(b)) : t[i] = IF i <= Len(a) THEN a[i] ELSE b[i - Len(a)]
    BY <1>5, <1>6, ConcatProperties
  <2>2. Len(a) + Len(b) = Len(s) - 1
    BY <1>1, <1>2, <1>6
  <2>3. ASSUME NEW i \in 1..(Len(s) - 1) PROVE t[i] = IF i < k THEN s[i] ELSE s[i + 1]
    <3>1. t[i] = IF i <= k - 1 THEN a[i] ELSE b[i - (k - 1)]
      BY <1>6, <2>1, <2>2
    <3>2. CASE i < k
      <4>1. i <= k - 1 /\ i \in 1..(k - 1)
        BY <3>2, <1>1, <1>2
      <4> QED BY <3>1, <3>2, <4>1, <1>6
    <3>3. CASE ~(i < k)
      <4>1. ~(i <= k - 1) /\ i - (k - 1) \in 1..(Len(s) - k) /\ (i - (k - 1)) + k = i + 1
        BY <3>3, <1>1, <1>2
      <4>2. b[i - (k - 1)] = s[(i - (k - 1)) + k]
        BY <4>1, <1>6
      <4> QED BY <3>1, <3>3, <4>1, <4>2
    <3> QED BY <3>2, <3>3
  <2> QED BY <2>1, <2>2, <2>3
<1>8. DOMAIN t = 1..(Len(s) - 1)
  BY <1>7, LenProperties
<1>9. t # <<>> /\ Head(t) = s[1]
  BY <1>1, <1>2, <1>4, <1>7
<1>10. IsInjective(t)
  <2> SUFFICES ASSUME NEW i \in 1..(Len(s) - 1), NEW j \in 1..(Len(s) - 1), t[i] = t[j]
               PROVE  i = j
    BY <1>8 DEF IsInjective
  <2> DEFINE from(n) == IF n < k THEN n ELSE n + 1
  <2>1. /\ from(i) \in 1..Len(s) /\ from(j) \in 1..Len(s)
        /\ t[i] = s[from(i)] /\ t[j] = s[from(j)]
    BY <1>1, <1>2, <1>7
  <2>2. from(i) = from(j)
    <3> HIDE DEF from
    <3> QED BY <1>1, <2>1 DEF IsInjective
  <2> QED BY <1>2, <2>2
<1>11. Range(t) = Range(s) \ {e}
  <2>1. ASSUME NEW x \in Range(t) PROVE x \in Range(s) \ {e}
    BY <2>1, <1>1, <1>2, <1>3, <1>7, <1>8 DEF Range
  <2>2. ASSUME NEW x \in Range(s) \ {e} PROVE x \in Range(t)
    <3>1. PICK i \in 1..Len(s) : s[i] = x /\ i # k
      BY <2>2, <1>1, <1>2 DEF Range
    <3>2. CASE i < k
      BY <3>1, <3>2, <1>1, <1>2, <1>7, <1>8 DEF Range
    <3>3. CASE i > k
      <4>1. i - 1 \in 1..(Len(s) - 1) /\ t[i - 1] = x
        BY <3>1, <3>3, <1>1, <1>2, <1>7
      <4> QED BY <4>1, <1>8 DEF Range
    <3> QED BY <3>1, <3>2, <3>3
  <2> QED BY <2>1, <2>2
<1> QED
  BY <1>4, <1>7, <1>9, <1>10, <1>11 DEF t

\* As many different ids as places taken.
LEMMA IdsCounted ==
    ASSUME NEW S, NEW s \in Seq(S), IsInjective(s)
    PROVE  Cardinality(Range(s)) = Len(s)
<1>1. s \in [1..Len(s) -> Range(s)] /\ Len(s) \in Nat /\ DOMAIN s = 1..Len(s)
  BY LenProperties DEF Range
<1>2. s \in Bijection(1..Len(s), Range(s))
  BY <1>1 DEF Bijection, Injection, Surjection, IsInjective, Range
<1> QED
  BY <1>1, <1>2, FS_CountingElements DEF ExistsBijection

-----------------------------------------------------------------------------
(* The match of a room                                                      *)

\* A new round is that of the line-up, with nothing filled.
LEMMA StartFacts ==
    ASSUME NEW match, MatchOK(match)
    PROVE  LET new == StartNextRound(match) IN
           /\ MatchOK(new)
           /\ new.mPlayerIds = match.mPlayerIds /\ new.phase = "running"
           /\ \A p \in DOMAIN new.filled : new.filled[p] = {}
<1> DEFINE empty == [p \in Range(match.mPlayerIds) |-> {}]
           new == StartNextRound(match)
<1>1. Range(match.mPlayerIds) \subseteq PlayerIds
  BY RangeOfSeq DEF MatchOK
<1>2. empty \in Boards
  BY <1>1 DEF Boards
<1>3. new = [match EXCEPT !.phase = "running", !.filled = empty]
  BY DEF StartNextRound
<1> HIDE DEF empty, new
<1>4. /\ new \in [mPlayerIds : Seq(PlayerIds), phase : {"idle", "running", "finished"},
                  filled : Boards]
      /\ new.mPlayerIds = match.mPlayerIds /\ new.phase = "running" /\ new.filled = empty
  BY <1>2, <1>3 DEF MatchOK
<1> QED
  BY <1>4 DEF MatchOK, empty, new

LEMMA SetPlayersFacts ==
    ASSUME NEW match, MatchOK(match), NEW ids \in Seq(PlayerIds)
    PROVE  LET new == StartNextRound(SetPlayers(match, ids)) IN
           /\ MatchOK(new)
           /\ new.mPlayerIds = ids /\ new.phase = "running"
           /\ \A p \in DOMAIN new.filled : new.filled[p] = {}
<1> DEFINE empty == [p \in Range(ids) |-> {}]
           new == StartNextRound(SetPlayers(match, ids))
<1>1. Range(ids) \subseteq PlayerIds
  BY RangeOfSeq
<1>2. empty \in Boards
  BY <1>1 DEF Boards
<1>3. new = [match EXCEPT !.mPlayerIds = ids, !.phase = "running", !.filled = empty]
  BY DEF StartNextRound, SetPlayers, MatchOK
<1> HIDE DEF empty, new
<1>4. /\ new \in [mPlayerIds : Seq(PlayerIds), phase : {"idle", "running", "finished"},
                  filled : Boards]
      /\ new.mPlayerIds = ids /\ new.phase = "running" /\ new.filled = empty
  BY <1>2, <1>3 DEF MatchOK
<1> QED
  BY <1>4 DEF MatchOK, empty, new

\* A cell filled touches the board of one player and the phase.
LEMMA FilledFacts ==
    ASSUME NEW match, MatchOK(match), NEW p \in DOMAIN match.filled, NEW c \in Cells
    PROVE  LET new == Filled(match, p, c) IN
           /\ MatchOK(new)
           /\ new.mPlayerIds = match.mPlayerIds /\ new.phase # "idle"
           /\ DOMAIN new.filled = DOMAIN match.filled
           /\ new.filled[p] = match.filled[p] \cup {c}
           /\ \A q \in DOMAIN match.filled : q # p => new.filled[q] = match.filled[q]
<1> DEFINE boards == [match.filled EXCEPT ![p] = match.filled[p] \cup {c}]
           phase == IF Cells \subseteq match.filled[p] \cup {c} THEN "finished" ELSE "running"
           new == Filled(match, p, c)
<1>1. PICK ids \in SUBSET PlayerIds : match.filled \in [ids -> SUBSET Cells]
  BY DEF MatchOK, Boards
<1>2. boards \in [ids -> SUBSET Cells]
  BY <1>1
<1>3. boards \in Boards /\ DOMAIN boards = DOMAIN match.filled
  BY <1>1, <1>2 DEF Boards
<1>4. new = [match EXCEPT !.filled = boards, !.phase = phase]
  BY DEF Filled, MatchOK
<1>5. phase \in {"idle", "running", "finished"} /\ phase # "idle"
  OBVIOUS
<1>6. /\ boards[p] = match.filled[p] \cup {c}
      /\ \A q \in DOMAIN match.filled : q # p => boards[q] = match.filled[q]
  OBVIOUS
<1> HIDE DEF boards, phase, new
<1>7. /\ new \in [mPlayerIds : Seq(PlayerIds), phase : {"idle", "running", "finished"},
                  filled : Boards]
      /\ new.mPlayerIds = match.mPlayerIds /\ new.phase = phase /\ new.filled = boards
  BY <1>3, <1>4, <1>5 DEF MatchOK
<1> QED
  BY <1>3, <1>5, <1>6, <1>7 DEF MatchOK, new

-----------------------------------------------------------------------------
(* The inductive invariant, by rooms and by profiles                        *)

\* A full room where all are ready has its round.
ReadyRoundPlayed(r) ==
    /\ Len(mRooms[r].playerIds) = mRooms[r].maxPlayers
    /\ \A p \in Members(r) : mPlayers[p].ready
    => /\ mRooms[r].match.phase # "idle"
       /\ mRooms[r].match.mPlayerIds = mRooms[r].playerIds

FullTable(r) ==
    LET ids == mRooms[r].match.mPlayerIds IN
    ids # <<>> => Len(ids) = mRooms[r].maxPlayers /\ Head(ids) = mRooms[r].hostPlayerId

RoomSound(r) ==
    /\ RoomOK(mRooms[r])
    /\ \A p \in PlayerIds : mPlayers[p].roomId = r <=> p \in Members(r)
    /\ Head(mRooms[r].playerIds) = mRooms[r].hostPlayerId
    /\ \A p \in Members(r) : mPlayers[p].connected
    /\ ReadyRoundPlayed(r)
    /\ FullTable(r)

ProfileSound(p) ==
    /\ mPlayers[p].roomId \in DOMAIN mRooms \cup {NoRoom}
    /\ mPlayers[p].roomId = NoRoom => ~mPlayers[p].ready /\ ~mPlayers[p].playAgain

LobbyInv ==
    /\ mPlayers \in Seq(Profile) /\ Len(mPlayers) <= MaxProfiles
    /\ DOMAIN mRooms \subseteq 1..MaxProfiles
    /\ \A r \in DOMAIN mRooms : RoomSound(r)
    /\ \A p \in PlayerIds : ProfileSound(p)

\* The invariants that TLC checks are its parts.
LEMMA LobbyInvParts ==
    LobbyInv => /\ LobbyTypeOK /\ MembershipAgrees /\ HostAlwaysPresent
                /\ FlagsStayInRooms /\ ReadyRoomHasItsRound /\ RoundsHaveFullTables
<1> SUFFICES ASSUME LobbyInv
             PROVE  /\ LobbyTypeOK /\ MembershipAgrees /\ HostAlwaysPresent
                    /\ FlagsStayInRooms /\ ReadyRoomHasItsRound /\ RoundsHaveFullTables
  OBVIOUS
<1> USE DEF LobbyInv, RoomSound, ProfileSound
<1>1. LobbyTypeOK
  BY DEF LobbyTypeOK
<1>2. MembershipAgrees
  BY DEF MembershipAgrees
<1>3. HostAlwaysPresent
  BY DEF HostAlwaysPresent
<1>4. FlagsStayInRooms
  BY DEF FlagsStayInRooms
<1>5. ReadyRoomHasItsRound
  BY DEF ReadyRoomHasItsRound, ReadyRoundPlayed
<1>6. RoundsHaveFullTables
  BY DEF RoundsHaveFullTables, FullTable
<1> QED
  BY <1>1, <1>2, <1>3, <1>4, <1>5, <1>6

\* What is known of a room that is open.
LEMMA RoomFacts ==
    ASSUME LobbyInv, NEW r \in DOMAIN mRooms
    PROVE  /\ r # NoRoom /\ r \in 1..MaxProfiles
           /\ DOMAIN mRooms[r] = {"hostPlayerId", "maxPlayers", "playerIds", "match"}
           /\ mRooms[r].playerIds \in Seq(PlayerIds) /\ IsInjective(mRooms[r].playerIds)
           /\ mRooms[r].playerIds # <<>>
           /\ Len(mRooms[r].playerIds) \in 1..mRooms[r].maxPlayers
           /\ mRooms[r].maxPlayers \in MinPlayers..MaxPlayers
           /\ Members(r) \subseteq PlayerIds
           /\ mRooms[r].hostPlayerId \in Members(r)
           /\ Head(mRooms[r].playerIds) = mRooms[r].hostPlayerId
           /\ MatchOK(mRooms[r].match)
<1>1. RoomSound(r) /\ r # NoRoom /\ r \in 1..MaxProfiles
  BY SizesAssumption DEF LobbyInv, NoRoom
<1> DEFINE ids == mRooms[r].playerIds
<1>2. ids \in Seq(PlayerIds) /\ Len(ids) \in 1..mRooms[r].maxPlayers
      /\ mRooms[r].maxPlayers \in MinPlayers..MaxPlayers
  BY <1>1 DEF RoomSound, RoomOK
<1>3. ids # <<>> /\ Members(r) \subseteq PlayerIds
  BY <1>2, RangeOfSeq, SizesAssumption DEF Members
<1>4. Head(ids) \in Members(r)
  <2>1. DOMAIN ids = 1..Len(ids) /\ 1 \in 1..Len(ids) /\ Head(ids) = ids[1]
    BY <1>2, SizesAssumption
  <2> QED BY <2>1 DEF Members, Range
<1> QED
  BY <1>1, <1>2, <1>3, <1>4 DEF RoomSound, RoomOK

\* A player whose profile has a room is in that room and in no other.
LEMMA SeatFacts ==
    ASSUME LobbyInv, NEW p \in PlayerIds
    PROVE  /\ mPlayers[p] \in Profile
           /\ mPlayers[p].roomId # NoRoom =>
                /\ mPlayers[p].roomId \in DOMAIN mRooms
                /\ p \in Members(mPlayers[p].roomId)
           /\ \A r \in DOMAIN mRooms : p \in Members(r) => r = mPlayers[p].roomId
<1>1. mPlayers[p] \in Profile
  BY ElementOfSeq DEF LobbyInv, PlayerIds
<1> QED
  BY <1>1 DEF LobbyInv, ProfileSound, RoomSound

\* More profiles never make a room's data wrong.
LEMMA RoomStaysOK ==
    ASSUME NEW room, RoomOK(room), PlayerIds \subseteq PlayerIds'
    PROVE  RoomOK(room)'
<1>1. room.playerIds \in Seq(PlayerIds') /\ room.match.mPlayerIds \in Seq(PlayerIds')
  BY SeqMonotonic DEF RoomOK, MatchOK
<1>2. Boards \subseteq Boards'
  BY DEF Boards
<1>3. MatchOK(room.match)'
  BY <1>1, <1>2 DEF RoomOK, MatchOK
<1> QED
  BY <1>1, <1>3 DEF RoomOK

\* A room is left as it was by whatever does not change its entry, who has its
\* id, and the flags of its players.
LEMMA RoomUntouched ==
    ASSUME LobbyInv, NEW r \in DOMAIN mRooms, mRooms'[r] = mRooms[r],
           PlayerIds \subseteq PlayerIds',
           \A p \in PlayerIds : mPlayers'[p].roomId = r <=> mPlayers[p].roomId = r,
           \A p \in PlayerIds' \ PlayerIds : mPlayers'[p].roomId # r,
           \A p \in Members(r) : mPlayers'[p].connected /\ mPlayers'[p].ready = mPlayers[p].ready
    PROVE  RoomSound(r)'
<1>1. RoomSound(r)
  BY DEF LobbyInv
<1>2. Members(r)' = Members(r) /\ Members(r) \subseteq PlayerIds
  BY RoomFacts DEF Members
<1>3. RoomOK(mRooms[r])'
  <2>1. ASSUME NEW room, RoomOK(room) PROVE RoomOK(room)'
    BY <2>1, RoomStaysOK
  <2> QED BY <1>1, <2>1 DEF RoomSound
<1>4. \A p \in PlayerIds' : mPlayers'[p].roomId = r <=> p \in Members(r)'
  BY <1>1, <1>2 DEF RoomSound
<1>5. Head(mRooms'[r].playerIds) = mRooms'[r].hostPlayerId
      /\ (\A p \in Members(r)' : mPlayers'[p].connected)
      /\ FullTable(r)'
  BY <1>1, <1>2 DEF RoomSound, FullTable
<1>6. ReadyRoundPlayed(r)'
  BY <1>1, <1>2 DEF RoomSound, ReadyRoundPlayed
<1> QED
  BY <1>3, <1>4, <1>5, <1>6 DEF RoomSound

-----------------------------------------------------------------------------
(* Every operation keeps the invariant                                      *)

LEMMA InitLobbyInv == Init => LobbyInv
<1> SUFFICES ASSUME Init PROVE LobbyInv
  OBVIOUS
<1>1. mPlayers \in Seq(Profile) /\ Len(mPlayers) = 0 /\ PlayerIds = {}
  BY EmptySeq DEF Init, PlayerIds
<1>2. DOMAIN mRooms = {}
  BY DEF Init
<1> QED
  BY <1>1, <1>2, SizesAssumption DEF LobbyInv

LEMMA RegisterKeepsInv ==
    ASSUME LobbyInv, RegisterPlayer
    PROVE  LobbyInv'
<1>1. NewProfile \in Profile
  BY DEF NewProfile, Profile, NoRoom
<1>2. /\ mPlayers' \in Seq(Profile) /\ Len(mPlayers') = Len(mPlayers) + 1 /\ Len(mPlayers) \in Nat
      /\ \A p \in PlayerIds : mPlayers'[p] = mPlayers[p]
      /\ mPlayers'[Len(mPlayers) + 1] = NewProfile
  BY <1>1, AppendProperties, LenProperties DEF RegisterPlayer, LobbyInv, PlayerIds
<1>3. PlayerIds' = PlayerIds \cup {Len(mPlayers) + 1} /\ Len(mPlayers) + 1 \notin PlayerIds
  BY <1>2 DEF PlayerIds
<1>4. mRooms' = mRooms /\ Len(mPlayers') <= MaxProfiles
  BY <1>2, SizesAssumption DEF RegisterPlayer
<1>5. ASSUME NEW r \in DOMAIN mRooms' PROVE RoomSound(r)'
  <2>1. r \in DOMAIN mRooms /\ r # NoRoom /\ Members(r) \subseteq PlayerIds
    BY <1>4, <1>5, RoomFacts
  <2>2. \A p \in PlayerIds' \ PlayerIds : mPlayers'[p].roomId # r
    BY <1>2, <1>3, <2>1 DEF NewProfile
  <2>3. \A p \in Members(r) : mPlayers'[p].connected /\ mPlayers'[p].ready = mPlayers[p].ready
    BY <1>2, <2>1 DEF LobbyInv, RoomSound
  <2> QED BY <1>2, <1>3, <1>4, <2>1, <2>2, <2>3, RoomUntouched
<1>6. ASSUME NEW p \in PlayerIds' PROVE ProfileSound(p)'
  BY <1>2, <1>3, <1>4 DEF ProfileSound, LobbyInv, NewProfile
<1> QED
  BY <1>2, <1>4, <1>5, <1>6 DEF LobbyInv

\* What an update of one profile leaves of the vector.
LEMMA ProfileReplaced ==
    ASSUME LobbyInv, NEW p \in PlayerIds, NEW profile \in Profile,
           mPlayers' = [mPlayers EXCEPT ![p] = profile]
    PROVE  /\ mPlayers' \in Seq(Profile) /\ Len(mPlayers') <= MaxProfiles
           /\ PlayerIds' = PlayerIds
           /\ mPlayers'[p] = profile
           /\ \A q \in PlayerIds : q # p => mPlayers'[q] = mPlayers[q]
  BY ExceptSeq DEF LobbyInv, PlayerIds

LEMMA MovedFacts ==
    ASSUME NEW profile \in Profile, NEW r \in Nat
    PROVE  /\ Moved(profile, r) \in Profile
           /\ Moved(profile, r).roomId = r
           /\ Moved(profile, r).connected = profile.connected
           /\ ~Moved(profile, r).ready /\ ~Moved(profile, r).playAgain
  BY DEF Moved, Profile

LEMMA SeatChanged ==
    ASSUME LobbyInv, NEW p \in PlayerIds, NEW r \in Nat,
           mPlayers' = [mPlayers EXCEPT ![p] = Moved(mPlayers[p], r)]
    PROVE  /\ mPlayers' \in Seq(Profile) /\ Len(mPlayers') <= MaxProfiles
           /\ PlayerIds' = PlayerIds
           /\ mPlayers'[p].roomId = r /\ mPlayers'[p].connected = mPlayers[p].connected
           /\ ~mPlayers'[p].ready /\ ~mPlayers'[p].playAgain
           /\ \A q \in PlayerIds : q # p => mPlayers'[q] = mPlayers[q]
<1> DEFINE profile == Moved(mPlayers[p], r)
<1>1. mPlayers[p] \in Profile
  BY SeatFacts
<1>2. /\ profile \in Profile /\ profile.roomId = r /\ profile.connected = mPlayers[p].connected
      /\ ~profile.ready /\ ~profile.playAgain
  BY <1>1, MovedFacts
<1> HIDE DEF profile
<1>3. mPlayers' = [mPlayers EXCEPT ![p] = profile]
  BY DEF profile
<1> QED
  BY <1>2, <1>3, ProfileReplaced

\* A room is opened: under an id that nothing uses, with its host alone in it.
RoomOpened(p, j, n) ==
    /\ p \in PlayerIds /\ mPlayers[p].roomId = NoRoom
    /\ j \in 1..MaxProfiles /\ j # NoRoom /\ j \notin DOMAIN mRooms
    /\ n \in MinPlayers..MaxPlayers
    /\ mPlayers' \in Seq(Profile) /\ Len(mPlayers') <= MaxProfiles
    /\ PlayerIds' = PlayerIds
    /\ mPlayers'[p].roomId = j /\ mPlayers'[p].connected
    /\ ~mPlayers'[p].ready /\ ~mPlayers'[p].playAgain
    /\ \A q \in PlayerIds : q # p => mPlayers'[q] = mPlayers[q]
    /\ DOMAIN mRooms' = DOMAIN mRooms \cup {j}
    /\ mRooms'[j] = [hostPlayerId |-> p, maxPlayers |-> n,
                     playerIds |-> <<p>>, match |-> FreshMatch]
    /\ \A r \in DOMAIN mRooms : mRooms'[r] = mRooms[r]

LEMMA CreateFacts ==
    ASSUME LobbyInv, NEW p \in ConnectedIds, NEW n \in Int, CreateRoomForPlayer(p, n)
    PROVE  \E j \in 1..MaxProfiles : RoomOpened(p, j, n)
<1>1. PICK id \in PlayerIds :
        /\ IsNextRoomId(id)
        /\ mRooms' = [r \in DOMAIN mRooms \cup {id} |->
                        IF r = id THEN [hostPlayerId |-> p, maxPlayers |-> n,
                                        playerIds |-> <<p>>, match |-> FreshMatch]
                                  ELSE mRooms[r]]
        /\ mPlayers' = [mPlayers EXCEPT ![p] = Moved(mPlayers[p], id)]
  BY DEF CreateRoomForPlayer
<1>2. p \in PlayerIds /\ mPlayers[p] \in Profile /\ mPlayers[p].connected
      /\ mPlayers[p].roomId = NoRoom
  BY SeatFacts DEF ConnectedIds, CreateRoomForPlayer
<1>3. id \in 1..MaxProfiles /\ id \in Nat /\ id # NoRoom /\ id \notin DOMAIN mRooms
  BY <1>1, SizesAssumption, LenProperties DEF LobbyInv, PlayerIds, IsNextRoomId, NoRoom
<1>4. /\ mPlayers' \in Seq(Profile) /\ Len(mPlayers') <= MaxProfiles
      /\ PlayerIds' = PlayerIds
      /\ mPlayers'[p].roomId = id /\ mPlayers'[p].connected
      /\ ~mPlayers'[p].ready /\ ~mPlayers'[p].playAgain
      /\ \A q \in PlayerIds : q # p => mPlayers'[q] = mPlayers[q]
  BY <1>1, <1>2, <1>3, SeatChanged
<1>5. DOMAIN mRooms' = DOMAIN mRooms \cup {id}
      /\ mRooms'[id] = [hostPlayerId |-> p, maxPlayers |-> n,
                        playerIds |-> <<p>>, match |-> FreshMatch]
      /\ \A r \in DOMAIN mRooms : mRooms'[r] = mRooms[r]
  BY <1>1, <1>3
<1>6. n \in MinPlayers..MaxPlayers
  BY SizesAssumption DEF CreateRoomForPlayer, IsValidPlayerCount
<1> QED
  BY <1>1, <1>2, <1>3, <1>4, <1>5, <1>6 DEF RoomOpened

LEMMA CreateKeepsInv ==
    ASSUME LobbyInv, NEW p, NEW id, NEW n, RoomOpened(p, id, n)
    PROVE  LobbyInv'
<1>1. p \in PlayerIds /\ mPlayers[p].roomId = NoRoom
  BY DEF RoomOpened
<1>2. id \in 1..MaxProfiles /\ id # NoRoom /\ id \notin DOMAIN mRooms
  BY DEF RoomOpened
<1>3. /\ mPlayers' \in Seq(Profile) /\ Len(mPlayers') <= MaxProfiles
      /\ PlayerIds' = PlayerIds
      /\ mPlayers'[p].roomId = id /\ mPlayers'[p].connected
      /\ ~mPlayers'[p].ready /\ ~mPlayers'[p].playAgain
      /\ \A q \in PlayerIds : q # p => mPlayers'[q] = mPlayers[q]
  BY DEF RoomOpened
<1>4. DOMAIN mRooms' = DOMAIN mRooms \cup {id}
      /\ mRooms'[id] = [hostPlayerId |-> p, maxPlayers |-> n,
                        playerIds |-> <<p>>, match |-> FreshMatch]
      /\ \A r \in DOMAIN mRooms : mRooms'[r] = mRooms[r]
  BY DEF RoomOpened
<1>5. n \in MinPlayers..MaxPlayers
  BY DEF RoomOpened
<1>6. RoomSound(id)'
  <2>1. <<p>> \in Seq(PlayerIds) /\ IsInjective(<<p>>) /\ Len(<<p>>) \in 1..n
        /\ Range(<<p>>) = {p} /\ Head(<<p>>) = p
    BY <1>1, <1>5, SizesAssumption DEF IsInjective, Range
  <2>2. MatchOK(FreshMatch)
    <3>1. <<>> \in Seq(PlayerIds) /\ DOMAIN <<>> = {} /\ Range(<<>>) = {}
      BY EmptySeq DEF Range
    <3>2. <<>> \in Boards
      <4>1. <<>> \in [{} -> SUBSET Cells]
        BY <3>1
      <4> QED BY <4>1 DEF Boards
    <3> QED BY <3>1, <3>2 DEF MatchOK, FreshMatch
  <2>3. MatchOK(FreshMatch)'
    BY <1>3, <2>2 DEF MatchOK, Boards
  <2>4. RoomOK(mRooms[id])'
    BY <1>1, <1>3, <1>4, <1>5, <2>1, <2>3 DEF RoomOK
  <2>5. Members(id)' = {p}
    BY <1>4, <2>1 DEF Members
  <2>6. \A q \in PlayerIds' : mPlayers'[q].roomId = id <=> q \in Members(id)'
    <3>1. \A q \in PlayerIds : mPlayers[q].roomId # id
      BY <1>2 DEF LobbyInv, ProfileSound
    <3> QED BY <1>3, <2>5, <3>1
  <2>7. ReadyRoundPlayed(id)' /\ FullTable(id)'
    BY <1>3, <1>4, <2>5 DEF ReadyRoundPlayed, FullTable, FreshMatch
  <2> QED BY <1>3, <1>4, <2>1, <2>4, <2>5, <2>6, <2>7 DEF RoomSound
<1>7. ASSUME NEW r \in DOMAIN mRooms PROVE RoomSound(r)'
  <2>1. r # NoRoom /\ r # id /\ Members(r) \subseteq PlayerIds
    BY <1>2, RoomFacts
  <2>2. p \notin Members(r)
    BY <1>1, <2>1, SeatFacts
  <2>3. \A q \in Members(r) : mPlayers'[q] = mPlayers[q] /\ mPlayers[q].connected
    BY <1>3, <2>1, <2>2 DEF LobbyInv, RoomSound
  <2> QED BY <1>1, <1>3, <1>4, <2>1, <2>3, RoomUntouched
<1>8. ASSUME NEW q \in PlayerIds' PROVE ProfileSound(q)'
  BY <1>2, <1>3, <1>4 DEF ProfileSound, LobbyInv
<1> QED
  BY <1>2, <1>3, <1>4, <1>6, <1>7, <1>8 DEF LobbyInv

\* A place in a room is taken, by a player who has no flags up.
SeatTaken(p, j) ==
    /\ p \in PlayerIds /\ mPlayers[p].roomId = NoRoom /\ p \notin Members(j)
    /\ j \in DOMAIN mRooms /\ j # NoRoom
    /\ Len(mRooms[j].playerIds) < mRooms[j].maxPlayers
    /\ mPlayers' \in Seq(Profile) /\ Len(mPlayers') <= MaxProfiles
    /\ PlayerIds' = PlayerIds
    /\ mPlayers'[p].roomId = j /\ mPlayers'[p].connected
    /\ ~mPlayers'[p].ready /\ ~mPlayers'[p].playAgain
    /\ \A q \in PlayerIds : q # p => mPlayers'[q] = mPlayers[q]
    /\ DOMAIN mRooms' = DOMAIN mRooms
    /\ \A r \in DOMAIN mRooms : r # j => mRooms'[r] = mRooms[r]
    /\ DOMAIN mRooms'[j] = DOMAIN mRooms[j]
    /\ mRooms'[j].playerIds = Append(mRooms[j].playerIds, p)
    /\ mRooms'[j].hostPlayerId = mRooms[j].hostPlayerId
    /\ mRooms'[j].maxPlayers = mRooms[j].maxPlayers
    /\ mRooms'[j].match = mRooms[j].match

LEMMA JoinFacts ==
    ASSUME LobbyInv, NEW p \in ConnectedIds, NEW j \in DOMAIN mRooms, JoinRoomForPlayer(p, j)
    PROVE  SeatTaken(p, j)
<1> DEFINE ids == mRooms[j].playerIds
<1>1. /\ p \in PlayerIds /\ mPlayers[p].connected
      /\ mPlayers[p].roomId = NoRoom /\ p \notin Members(j)
      /\ Len(ids) < mRooms[j].maxPlayers
      /\ mPlayers' = [mPlayers EXCEPT ![p] = Moved(mPlayers[p], j)]
      /\ mRooms' = [mRooms EXCEPT ![j].playerIds = Append(ids, p)]
  BY DEF ConnectedIds, JoinRoomForPlayer, CanJoin, HasRoom
<1>2. j # NoRoom /\ j \in Nat
  BY RoomFacts, SizesAssumption
<1>3. /\ mPlayers' \in Seq(Profile) /\ Len(mPlayers') <= MaxProfiles
      /\ PlayerIds' = PlayerIds
      /\ mPlayers'[p].roomId = j /\ mPlayers'[p].connected
      /\ ~mPlayers'[p].ready /\ ~mPlayers'[p].playAgain
      /\ \A q \in PlayerIds : q # p => mPlayers'[q] = mPlayers[q]
  BY <1>1, <1>2, SeatChanged
<1>4. /\ DOMAIN mRooms' = DOMAIN mRooms
      /\ \A r \in DOMAIN mRooms : r # j => mRooms'[r] = mRooms[r]
      /\ DOMAIN mRooms'[j] = DOMAIN mRooms[j]
      /\ mRooms'[j].playerIds = Append(ids, p)
      /\ mRooms'[j].hostPlayerId = mRooms[j].hostPlayerId
      /\ mRooms'[j].maxPlayers = mRooms[j].maxPlayers
      /\ mRooms'[j].match = mRooms[j].match
  BY <1>1, RoomFacts
<1> QED
  BY <1>1, <1>2, <1>3, <1>4 DEF SeatTaken

LEMMA JoinKeepsInv ==
    ASSUME LobbyInv, NEW p, NEW j, SeatTaken(p, j)
    PROVE  LobbyInv'
<1> DEFINE ids == mRooms[j].playerIds
<1>1. /\ p \in PlayerIds /\ mPlayers[p].roomId = NoRoom /\ p \notin Members(j)
      /\ Len(ids) < mRooms[j].maxPlayers
  BY DEF SeatTaken
<1>2. j \in DOMAIN mRooms /\ j # NoRoom
  BY DEF SeatTaken
<1>3. /\ mPlayers' \in Seq(Profile) /\ Len(mPlayers') <= MaxProfiles
      /\ PlayerIds' = PlayerIds
      /\ mPlayers'[p].roomId = j /\ mPlayers'[p].connected
      /\ ~mPlayers'[p].ready /\ ~mPlayers'[p].playAgain
      /\ \A q \in PlayerIds : q # p => mPlayers'[q] = mPlayers[q]
  BY DEF SeatTaken
<1>4. /\ Append(ids, p) \in Seq(PlayerIds) /\ Len(Append(ids, p)) = Len(ids) + 1
      /\ Range(Append(ids, p)) = Members(j) \cup {p}
      /\ IsInjective(Append(ids, p))
      /\ Head(Append(ids, p)) = Head(ids)
  BY <1>1, <1>2, RoomFacts, AppendFacts DEF Members
<1>5. /\ DOMAIN mRooms' = DOMAIN mRooms
      /\ \A r \in DOMAIN mRooms : r # j => mRooms'[r] = mRooms[r]
      /\ DOMAIN mRooms'[j] = DOMAIN mRooms[j]
      /\ mRooms'[j].playerIds = Append(ids, p)
      /\ mRooms'[j].hostPlayerId = mRooms[j].hostPlayerId
      /\ mRooms'[j].maxPlayers = mRooms[j].maxPlayers
      /\ mRooms'[j].match = mRooms[j].match
  BY DEF SeatTaken
<1>6. RoomSound(j)'
  <2>1. RoomSound(j) /\ Len(ids) \in Nat /\ mRooms[j].maxPlayers \in Nat
    BY <1>2, RoomFacts, SizesAssumption DEF LobbyInv
  <2>2. Members(j)' = Members(j) \cup {p} /\ Members(j) \subseteq PlayerIds
    BY <1>2, <1>4, <1>5, RoomFacts DEF Members
  <2>3. RoomOK(mRooms[j])'
    <3>1. MatchOK(mRooms[j].match)'
      BY <1>3, <1>5, <2>1 DEF RoomSound, RoomOK, MatchOK, Boards
    <3>2. Len(Append(ids, p)) \in 1..mRooms[j].maxPlayers
      BY <1>1, <1>4, <2>1
    <3> QED BY <1>3, <1>4, <1>5, <2>1, <3>1, <3>2 DEF RoomSound, RoomOK
  <2>4. \A q \in PlayerIds' : mPlayers'[q].roomId = j <=> q \in Members(j)'
    BY <1>3, <2>1, <2>2 DEF RoomSound
  <2>5. \A q \in Members(j)' : mPlayers'[q].connected
    BY <1>3, <2>1, <2>2 DEF RoomSound
  <2>6. ReadyRoundPlayed(j)' /\ FullTable(j)'
    BY <1>3, <1>5, <2>1, <2>2 DEF ReadyRoundPlayed, FullTable, RoomSound
  <2> QED BY <1>4, <1>5, <2>1, <2>3, <2>4, <2>5, <2>6 DEF RoomSound
<1>7. ASSUME NEW r \in DOMAIN mRooms, r # j PROVE RoomSound(r)'
  <2>1. r # NoRoom /\ Members(r) \subseteq PlayerIds /\ p \notin Members(r)
    BY <1>1, RoomFacts, SeatFacts
  <2>2. \A q \in Members(r) : mPlayers'[q] = mPlayers[q] /\ mPlayers[q].connected
    BY <1>3, <2>1 DEF LobbyInv, RoomSound
  <2> QED BY <1>1, <1>2, <1>3, <1>5, <1>7, <2>1, <2>2, RoomUntouched
<1>8. ASSUME NEW q \in PlayerIds' PROVE ProfileSound(q)'
  BY <1>2, <1>3, <1>5 DEF ProfileSound, LobbyInv
<1> QED
  BY <1>3, <1>5, <1>6, <1>7, <1>8 DEF LobbyInv

-----------------------------------------------------------------------------
(* Giving up a seat, by leaving or by disconnecting                         *)

\* The profiles as the handler passes them on: p's own flags may be cleared and
\* p marked as gone.
GivenUpBy(profiles, p) ==
    /\ profiles \in Seq(Profile) /\ Len(profiles) = Len(mPlayers)
    /\ \A q \in PlayerIds : q # p => profiles[q] = mPlayers[q]

LEMMA VectorRebuilt ==
    ASSUME NEW S, NEW s \in Seq(S), NEW t \in [DOMAIN s -> S]
    PROVE  t \in Seq(S) /\ Len(t) = Len(s) /\ DOMAIN t = 1..Len(s)
<1>1. DOMAIN s = 1..Len(s) /\ Len(s) \in Nat
  BY LenProperties
<1>2. t \in Seq(S)
  BY <1>1, SeqDef
<1> QED
  BY <1>1, <1>2, LenProperties

\* A room is closed: its players have no room, everybody else has what they had.
RoomClosed(p, j) ==
    /\ mPlayers' \in Seq(Profile) /\ Len(mPlayers') <= MaxProfiles
    /\ PlayerIds' = PlayerIds
    /\ p \in Members(j) /\ Members(j) \subseteq PlayerIds
    /\ \A q \in Members(j) : /\ mPlayers'[q].roomId = NoRoom
                             /\ ~mPlayers'[q].ready /\ ~mPlayers'[q].playAgain
    /\ \A q \in PlayerIds \ Members(j) : mPlayers'[q] = mPlayers[q]
    /\ DOMAIN mRooms' = DOMAIN mRooms \ {j}
    /\ \A r \in DOMAIN mRooms \ {j} : mRooms'[r] = mRooms[r]

LEMMA CloseFacts ==
    ASSUME LobbyInv, NEW p \in PlayerIds, NEW j \in DOMAIN mRooms, IsHost(j, p),
           NEW profiles, GivenUpBy(profiles, p), CloseRoom(profiles, j)
    PROVE  RoomClosed(p, j)
<1>1. p \in Members(j) /\ Members(j) \subseteq PlayerIds
  BY RoomFacts DEF IsHost
<1>2. DOMAIN profiles = PlayerIds /\ \A q \in PlayerIds : profiles[q] \in Profile
  BY LenProperties DEF GivenUpBy, PlayerIds
<1>3. mPlayers' \in [DOMAIN profiles -> Profile]
      /\ \A q \in PlayerIds : mPlayers'[q] = IF q \in Members(j) THEN Moved(profiles[q], NoRoom)
                                                               ELSE profiles[q]
  <2>1. NoRoom \in Nat
    BY DEF NoRoom
  <2>2. \A q \in PlayerIds : Moved(profiles[q], NoRoom) \in Profile
    BY <1>2, <2>1, MovedFacts
  <2>3. mPlayers' = [q \in DOMAIN profiles |-> IF q \in Members(j) THEN Moved(profiles[q], NoRoom)
                                                                   ELSE profiles[q]]
    BY DEF CloseRoom, Unseated
  <2> QED BY <1>2, <2>2, <2>3
<1>4. mPlayers' \in Seq(Profile) /\ Len(mPlayers') = Len(mPlayers)
  BY <1>3, VectorRebuilt DEF GivenUpBy
<1>5. Len(mPlayers') <= MaxProfiles /\ PlayerIds' = PlayerIds
  BY <1>4 DEF LobbyInv, PlayerIds
<1>6. \A q \in Members(j) : /\ mPlayers'[q].roomId = NoRoom
                            /\ ~mPlayers'[q].ready /\ ~mPlayers'[q].playAgain
  <2> SUFFICES ASSUME NEW q \in Members(j)
               PROVE  /\ mPlayers'[q].roomId = NoRoom
                      /\ ~mPlayers'[q].ready /\ ~mPlayers'[q].playAgain
    OBVIOUS
  <2>1. mPlayers'[q] = Moved(profiles[q], NoRoom) /\ profiles[q] \in Profile /\ NoRoom \in Nat
    BY <1>1, <1>2, <1>3 DEF NoRoom
  <2> QED BY <2>1, MovedFacts
<1>7. \A q \in PlayerIds \ Members(j) : mPlayers'[q] = mPlayers[q]
  BY <1>1, <1>3 DEF GivenUpBy
<1>8. DOMAIN mRooms' = DOMAIN mRooms \ {j} /\ \A r \in DOMAIN mRooms \ {j} : mRooms'[r] = mRooms[r]
  BY DEF CloseRoom, Restrict
<1> QED
  BY <1>1, <1>4, <1>5, <1>6, <1>7, <1>8 DEF RoomClosed

LEMMA CloseKeepsInv ==
    ASSUME LobbyInv, NEW p \in PlayerIds, NEW j \in DOMAIN mRooms, RoomClosed(p, j)
    PROVE  LobbyInv'
<1>1. /\ mPlayers' \in Seq(Profile) /\ Len(mPlayers') <= MaxProfiles
      /\ PlayerIds' = PlayerIds
      /\ p \in Members(j) /\ Members(j) \subseteq PlayerIds
      /\ \A q \in Members(j) : /\ mPlayers'[q].roomId = NoRoom
                               /\ ~mPlayers'[q].ready /\ ~mPlayers'[q].playAgain
      /\ \A q \in PlayerIds \ Members(j) : mPlayers'[q] = mPlayers[q]
      /\ DOMAIN mRooms' = DOMAIN mRooms \ {j}
      /\ \A r \in DOMAIN mRooms \ {j} : mRooms'[r] = mRooms[r]
  BY DEF RoomClosed
<1>2. ASSUME NEW r \in DOMAIN mRooms \ {j} PROVE RoomSound(r)'
  <2>1. r # NoRoom /\ Members(r) \subseteq PlayerIds
    BY RoomFacts
  <2>2. \A q \in Members(j) : mPlayers[q].roomId = j
    BY <1>1, SeatFacts
  <2>3. \A q \in PlayerIds : mPlayers'[q].roomId = r <=> mPlayers[q].roomId = r
    BY <1>1, <1>2, <2>1, <2>2
  <2>4. \A q \in Members(r) : mPlayers'[q] = mPlayers[q] /\ mPlayers[q].connected
    <3>1. \A q \in Members(r) : q \notin Members(j)
      BY <1>2, <2>1, SeatFacts
    <3> QED BY <1>1, <2>1, <3>1 DEF LobbyInv, RoomSound
  <2> QED BY <1>1, <2>3, <2>4, RoomUntouched
<1>3. ASSUME NEW q \in PlayerIds' PROVE ProfileSound(q)'
  <2>1. CASE q \in Members(j)
    BY <1>1, <2>1 DEF ProfileSound
  <2>2. CASE q \notin Members(j)
    <3>1. q \in PlayerIds /\ mPlayers'[q] = mPlayers[q] /\ mPlayers[q].roomId # j
      BY <1>1, <2>2 DEF LobbyInv, RoomSound
    <3> QED BY <1>1, <3>1 DEF ProfileSound, LobbyInv
  <2> QED BY <2>1, <2>2
<1> QED
  BY <1>1, <1>2, <1>3 DEF LobbyInv

\* A player who is not the host goes alone; the room keeps at least its host.
SeatGivenUp(p, j) ==
    /\ j \in DOMAIN mRooms /\ p \in Members(j)
    /\ mPlayers' \in Seq(Profile) /\ Len(mPlayers') <= MaxProfiles
    /\ PlayerIds' = PlayerIds
    /\ mPlayers'[p].roomId = NoRoom
    /\ ~mPlayers'[p].ready /\ ~mPlayers'[p].playAgain
    /\ \A q \in PlayerIds : q # p => mPlayers'[q] = mPlayers[q]
    /\ DOMAIN mRooms' = DOMAIN mRooms
    /\ \A r \in DOMAIN mRooms : r # j => mRooms'[r] = mRooms[r]
    /\ DOMAIN mRooms'[j] = DOMAIN mRooms[j]
    /\ mRooms'[j].hostPlayerId = mRooms[j].hostPlayerId
    /\ mRooms'[j].maxPlayers = mRooms[j].maxPlayers
    /\ mRooms'[j].match = mRooms[j].match
    /\ mRooms'[j].playerIds \in Seq(PlayerIds)
    /\ Len(mRooms'[j].playerIds) = Len(mRooms[j].playerIds) - 1
    /\ mRooms'[j].playerIds # <<>>
    /\ Members(j)' = Members(j) \ {p}
    /\ IsInjective(mRooms'[j].playerIds)
    /\ Head(mRooms'[j].playerIds) = Head(mRooms[j].playerIds)

LEMMA RemoveFacts ==
    ASSUME LobbyInv, NEW p \in PlayerIds, NEW j, j = mPlayers[p].roomId, j # NoRoom,
           ~IsHost(j, p), NEW profiles, GivenUpBy(profiles, p), RemovePlayerFromRoom(profiles, p)
    PROVE  SeatGivenUp(p, j)
<1> DEFINE ids == mRooms[j].playerIds
           left == RemoveFirst(ids, p)
<1>1. j \in DOMAIN mRooms /\ p \in Members(j)
      /\ \A r \in DOMAIN mRooms : p \in Members(r) => r = j
  BY SeatFacts
<1>2. p # Head(ids)
  BY <1>1, RoomFacts DEF IsHost
<1>3. /\ left \in Seq(PlayerIds) /\ left # <<>>
      /\ Len(left) = Len(ids) - 1
      /\ Range(left) = Range(ids) \ {p}
      /\ IsInjective(left)
      /\ Head(left) = Head(ids)
  BY <1>1, <1>2, RoomFacts, RemoveFirstFacts DEF Members
<1>4. mRooms' = [mRooms EXCEPT ![j].playerIds = left]
  <2>1. (CHOOSE r \in DOMAIN mRooms : p \in Members(r)) = j
    BY <1>1
  <2> QED BY <1>3, <2>1 DEF RemovePlayerFromRoom, WithoutPlayer
<1> HIDE DEF left
<1>5. /\ DOMAIN mRooms' = DOMAIN mRooms
      /\ \A r \in DOMAIN mRooms : r # j => mRooms'[r] = mRooms[r]
      /\ DOMAIN mRooms'[j] = DOMAIN mRooms[j]
      /\ mRooms'[j].playerIds = left
      /\ mRooms'[j].hostPlayerId = mRooms[j].hostPlayerId
      /\ mRooms'[j].maxPlayers = mRooms[j].maxPlayers
      /\ mRooms'[j].match = mRooms[j].match
  BY <1>1, <1>4, RoomFacts
<1>6. /\ mPlayers' \in Seq(Profile) /\ Len(mPlayers') = Len(mPlayers)
      /\ mPlayers'[p].roomId = NoRoom
      /\ ~mPlayers'[p].ready /\ ~mPlayers'[p].playAgain
      /\ \A q \in PlayerIds : q # p => mPlayers'[q] = mPlayers[q]
  <2> DEFINE profile == Moved(profiles[p], NoRoom)
  <2>1. profiles[p] \in Profile /\ NoRoom \in Nat /\ p \in 1..Len(profiles)
    BY ElementOfSeq DEF GivenUpBy, PlayerIds, NoRoom
  <2>2. profile \in Profile /\ profile.roomId = NoRoom /\ ~profile.ready /\ ~profile.playAgain
    BY <2>1, MovedFacts
  <2>3. mPlayers' = [profiles EXCEPT ![p] = profile]
    BY DEF RemovePlayerFromRoom
  <2> HIDE DEF profile
  <2> QED BY <2>1, <2>2, <2>3, ExceptSeq DEF GivenUpBy, PlayerIds
<1>7. Len(mPlayers') <= MaxProfiles /\ PlayerIds' = PlayerIds
  BY <1>6 DEF LobbyInv, PlayerIds
<1>8. Members(j)' = Members(j) \ {p}
  BY <1>3, <1>5 DEF Members
<1> QED
  BY <1>1, <1>3, <1>5, <1>6, <1>7, <1>8 DEF left, SeatGivenUp

LEMMA RemoveKeepsInv ==
    ASSUME LobbyInv, NEW p \in PlayerIds, NEW j, SeatGivenUp(p, j)
    PROVE  LobbyInv'
<1>1. /\ j \in DOMAIN mRooms /\ p \in Members(j)
      /\ mPlayers' \in Seq(Profile) /\ Len(mPlayers') <= MaxProfiles
      /\ PlayerIds' = PlayerIds
      /\ mPlayers'[p].roomId = NoRoom
      /\ ~mPlayers'[p].ready /\ ~mPlayers'[p].playAgain
      /\ \A q \in PlayerIds : q # p => mPlayers'[q] = mPlayers[q]
      /\ DOMAIN mRooms' = DOMAIN mRooms
      /\ \A r \in DOMAIN mRooms : r # j => mRooms'[r] = mRooms[r]
      /\ DOMAIN mRooms'[j] = DOMAIN mRooms[j]
      /\ mRooms'[j].hostPlayerId = mRooms[j].hostPlayerId
      /\ mRooms'[j].maxPlayers = mRooms[j].maxPlayers
      /\ mRooms'[j].match = mRooms[j].match
      /\ mRooms'[j].playerIds \in Seq(PlayerIds)
      /\ Len(mRooms'[j].playerIds) = Len(mRooms[j].playerIds) - 1
      /\ mRooms'[j].playerIds # <<>>
      /\ Members(j)' = Members(j) \ {p}
      /\ IsInjective(mRooms'[j].playerIds)
      /\ Head(mRooms'[j].playerIds) = Head(mRooms[j].playerIds)
  BY DEF SeatGivenUp
<1>2. RoomSound(j)'
  <2>1. /\ RoomSound(j) /\ Members(j) \subseteq PlayerIds
        /\ Len(mRooms[j].playerIds) \in 1..mRooms[j].maxPlayers
        /\ mRooms[j].maxPlayers \in Nat
    BY <1>1, RoomFacts, SizesAssumption DEF LobbyInv
  <2>2. Len(mRooms'[j].playerIds) \in 1..mRooms[j].maxPlayers
        /\ Len(mRooms'[j].playerIds) # mRooms[j].maxPlayers
    <3>1. Len(mRooms'[j].playerIds) \in Nat \ {0}
      BY <1>1, EmptySeq
    <3> QED BY <1>1, <2>1, <3>1
  <2>3. MatchOK(mRooms[j].match)'
    BY <1>1, <2>1 DEF RoomSound, RoomOK, MatchOK, Boards
  <2>4. RoomOK(mRooms[j])'
    BY <1>1, <2>1, <2>2, <2>3 DEF RoomSound, RoomOK
  <2>5. \A q \in PlayerIds' : mPlayers'[q].roomId = j <=> q \in Members(j)'
    BY <1>1, <2>1, RoomFacts DEF RoomSound
  <2>6. \A q \in Members(j)' : mPlayers'[q].connected
    BY <1>1, <2>1 DEF RoomSound
  <2>7. ReadyRoundPlayed(j)' /\ FullTable(j)'
    BY <1>1, <2>1, <2>2 DEF ReadyRoundPlayed, FullTable, RoomSound
  <2> QED BY <1>1, <2>1, <2>4, <2>5, <2>6, <2>7 DEF RoomSound
<1>3. ASSUME NEW r \in DOMAIN mRooms, r # j PROVE RoomSound(r)'
  <2>1. /\ r # NoRoom /\ Members(r) \subseteq PlayerIds /\ p \notin Members(r)
        /\ mPlayers[p].roomId = j
    BY <1>1, <1>3, RoomFacts, SeatFacts
  <2>2. \A q \in Members(r) : mPlayers'[q] = mPlayers[q] /\ mPlayers[q].connected
    BY <1>1, <2>1 DEF LobbyInv, RoomSound
  <2> QED BY <1>1, <1>3, <2>1, <2>2, RoomUntouched
<1>4. ASSUME NEW q \in PlayerIds' PROVE ProfileSound(q)'
  BY <1>1 DEF ProfileSound, LobbyInv
<1> QED
  BY <1>1, <1>2, <1>3, <1>4 DEF LobbyInv

LEMMA GiveUpFacts ==
    ASSUME LobbyInv, NEW p \in PlayerIds, mPlayers[p].roomId # NoRoom,
           NEW profiles, GivenUpBy(profiles, p), GiveUpRoom(profiles, p)
    PROVE  LET j == mPlayers[p].roomId IN
           /\ j \in DOMAIN mRooms
           /\ (IsHost(j, p) /\ RoomClosed(p, j)) \/ (~IsHost(j, p) /\ SeatGivenUp(p, j))
<1>1. mPlayers[p].roomId \in DOMAIN mRooms
  BY SeatFacts
<1> QED
  BY <1>1, CloseFacts, RemoveFacts DEF GiveUpRoom

LEMMA GiveUpKeepsInv ==
    ASSUME LobbyInv, NEW p \in PlayerIds, mPlayers[p].roomId # NoRoom,
           NEW profiles, GivenUpBy(profiles, p), GiveUpRoom(profiles, p)
    PROVE  LobbyInv'
  BY GiveUpFacts, CloseKeepsInv, RemoveKeepsInv

LEMMA LeaveKeepsInv ==
    ASSUME LobbyInv, NEW p \in PlayerIds, LeaveRoom(p)
    PROVE  LobbyInv'
<1>1. GivenUpBy(mPlayers, p)
  BY DEF GivenUpBy, LobbyInv
<1> QED
  BY <1>1, GiveUpKeepsInv DEF LeaveRoom

\* The profile a disconnect leaves before it gives up the seat.
LEMMA GoneFacts ==
    ASSUME LobbyInv, NEW p \in PlayerIds
    PROVE  LET gone == [mPlayers EXCEPT ![p].connected = FALSE, ![p].ready = FALSE,
                                        ![p].playAgain = FALSE]
               profile == [mPlayers[p] EXCEPT !.connected = FALSE, !.ready = FALSE,
                                              !.playAgain = FALSE]
           IN  /\ gone = [mPlayers EXCEPT ![p] = profile]
               /\ profile \in Profile /\ profile.roomId = mPlayers[p].roomId
               /\ ~profile.ready /\ ~profile.playAgain /\ ~profile.connected
               /\ GivenUpBy(gone, p)
<1> DEFINE gone == [mPlayers EXCEPT ![p].connected = FALSE, ![p].ready = FALSE,
                                    ![p].playAgain = FALSE]
           profile == [mPlayers[p] EXCEPT !.connected = FALSE, !.ready = FALSE,
                                          !.playAgain = FALSE]
<1>1. mPlayers[p] \in Profile /\ p \in DOMAIN mPlayers
  BY SeatFacts, LenProperties DEF LobbyInv, PlayerIds
<1>2. profile \in Profile /\ profile.roomId = mPlayers[p].roomId
      /\ ~profile.ready /\ ~profile.playAgain /\ ~profile.connected
  BY <1>1, Zenon DEF Profile
<1>3. gone = [mPlayers EXCEPT ![p] = profile]
  BY <1>1, Zenon
<1> HIDE DEF profile, gone
<1>4. GivenUpBy(gone, p)
  BY <1>2, <1>3, ExceptSeq DEF GivenUpBy, LobbyInv, PlayerIds
<1> QED
  BY <1>2, <1>3, <1>4 DEF profile, gone

LEMMA DisconnectKeepsInv ==
    ASSUME LobbyInv, NEW p \in PlayerIds, Disconnect(p)
    PROVE  LobbyInv'
<1> DEFINE gone == [mPlayers EXCEPT ![p].connected = FALSE, ![p].ready = FALSE,
                                    ![p].playAgain = FALSE]
           profile == [mPlayers[p] EXCEPT !.connected = FALSE, !.ready = FALSE,
                                          !.playAgain = FALSE]
<1>1. /\ gone = [mPlayers EXCEPT ![p] = profile]
      /\ profile \in Profile /\ profile.roomId = mPlayers[p].roomId
      /\ ~profile.ready /\ ~profile.playAgain
      /\ GivenUpBy(gone, p)
  BY GoneFacts
<1>2. \/ mPlayers[p].roomId = NoRoom /\ mPlayers' = gone /\ UNCHANGED mRooms
      \/ mPlayers[p].roomId # NoRoom /\ GiveUpRoom(gone, p)
  BY DEF Disconnect
<1> HIDE DEF gone, profile
<1>3. CASE mPlayers[p].roomId # NoRoom /\ GiveUpRoom(gone, p)
  BY <1>1, <1>3, GiveUpKeepsInv
<1>4. CASE mPlayers[p].roomId = NoRoom /\ mPlayers' = gone /\ UNCHANGED mRooms
  <2>1. /\ mPlayers' \in Seq(Profile) /\ Len(mPlayers') <= MaxProfiles
        /\ PlayerIds' = PlayerIds /\ mPlayers'[p] = profile
        /\ \A q \in PlayerIds : q # p => mPlayers'[q] = mPlayers[q]
    BY <1>1, <1>4, ProfileReplaced
  <2>2. ASSUME NEW r \in DOMAIN mRooms PROVE RoomSound(r)'
    <3>1. r # NoRoom /\ Members(r) \subseteq PlayerIds /\ p \notin Members(r)
      BY <1>4, RoomFacts, SeatFacts
    <3>2. \A q \in Members(r) : mPlayers'[q] = mPlayers[q] /\ mPlayers[q].connected
      BY <2>1, <3>1 DEF LobbyInv, RoomSound
    <3> QED BY <1>1, <1>4, <2>1, <3>1, <3>2, RoomUntouched
  <2>3. ASSUME NEW q \in PlayerIds' PROVE ProfileSound(q)'
    BY <1>1, <1>4, <2>1 DEF ProfileSound, LobbyInv
  <2> QED BY <1>4, <2>1, <2>2, <2>3 DEF LobbyInv
<1> QED
  BY <1>2, <1>3, <1>4

-----------------------------------------------------------------------------
(* Ready, replay and play                                                   *)

\* Only the match of a room has changed.
MatchReplaced(j, match) ==
    /\ DOMAIN mRooms' = DOMAIN mRooms
    /\ \A r \in DOMAIN mRooms : r # j => mRooms'[r] = mRooms[r]
    /\ DOMAIN mRooms'[j] = DOMAIN mRooms[j]
    /\ mRooms'[j].hostPlayerId = mRooms[j].hostPlayerId
    /\ mRooms'[j].maxPlayers = mRooms[j].maxPlayers
    /\ mRooms'[j].playerIds = mRooms[j].playerIds
    /\ mRooms'[j].match = match

\* Only flags have changed, and those of players of one room.
FlagsChanged(j) ==
    /\ mPlayers' \in Seq(Profile) /\ Len(mPlayers') <= MaxProfiles
    /\ PlayerIds' = PlayerIds
    /\ \A q \in PlayerIds : /\ mPlayers'[q].roomId = mPlayers[q].roomId
                            /\ mPlayers'[q].connected = mPlayers[q].connected
                            /\ q \notin Members(j) => mPlayers'[q] = mPlayers[q]

LEMMA MatchUpdated ==
    ASSUME LobbyInv, NEW j \in DOMAIN mRooms, NEW match,
           mRooms' = [mRooms EXCEPT ![j].match = match]
    PROVE  MatchReplaced(j, match)
  BY RoomFacts DEF MatchReplaced

\* Flags and one match may change as long as the round that a full and ready room
\* is owed is there, and the new line-up is a full table.
LEMMA MatchStepKeepsInv ==
    ASSUME LobbyInv, NEW j \in DOMAIN mRooms, FlagsChanged(j),
           NEW match, MatchOK(match), MatchReplaced(j, match),
           ReadyRoundPlayed(j)', FullTable(j)'
    PROVE  LobbyInv'
<1>1. /\ mPlayers' \in Seq(Profile) /\ Len(mPlayers') <= MaxProfiles
      /\ PlayerIds' = PlayerIds
      /\ \A q \in PlayerIds : /\ mPlayers'[q].roomId = mPlayers[q].roomId
                              /\ mPlayers'[q].connected = mPlayers[q].connected
                              /\ q \notin Members(j) => mPlayers'[q] = mPlayers[q]
  BY DEF FlagsChanged
<1>2. /\ DOMAIN mRooms' = DOMAIN mRooms
      /\ \A r \in DOMAIN mRooms : r # j => mRooms'[r] = mRooms[r]
      /\ DOMAIN mRooms'[j] = DOMAIN mRooms[j]
      /\ mRooms'[j].hostPlayerId = mRooms[j].hostPlayerId
      /\ mRooms'[j].maxPlayers = mRooms[j].maxPlayers
      /\ mRooms'[j].playerIds = mRooms[j].playerIds
      /\ mRooms'[j].match = match
  BY DEF MatchReplaced
<1>3. RoomSound(j)'
  <2>1. RoomSound(j) /\ Members(j) \subseteq PlayerIds
    BY RoomFacts DEF LobbyInv
  <2>2. Members(j)' = Members(j)
    BY <1>2 DEF Members
  <2>3. MatchOK(match)'
    BY <1>1 DEF MatchOK, Boards
  <2>4. RoomOK(mRooms[j])'
    BY <1>1, <1>2, <2>1, <2>3 DEF RoomSound, RoomOK
  <2> QED BY <1>1, <1>2, <2>1, <2>2, <2>4 DEF RoomSound
<1>4. ASSUME NEW r \in DOMAIN mRooms, r # j PROVE RoomSound(r)'
  <2>1. /\ Members(r) \subseteq PlayerIds
        /\ \A q \in Members(r) : q \notin Members(j)
    BY <1>4, RoomFacts, SeatFacts
  <2>2. \A q \in Members(r) : mPlayers'[q] = mPlayers[q] /\ mPlayers[q].connected
    BY <1>1, <2>1 DEF LobbyInv, RoomSound
  <2> QED BY <1>1, <1>2, <1>4, <2>2, RoomUntouched
<1>5. ASSUME NEW q \in PlayerIds' PROVE ProfileSound(q)'
  <2>1. CASE q \in Members(j)
    <3>1. q \in PlayerIds /\ mPlayers'[q].roomId = j /\ j # NoRoom
      BY <1>1, <2>1, RoomFacts, SeatFacts
    <3> QED BY <1>2, <3>1 DEF ProfileSound
  <2>2. CASE q \notin Members(j)
    BY <1>1, <1>2, <2>2 DEF ProfileSound, LobbyInv
  <2> QED BY <2>1, <2>2
<1> QED
  BY <1>1, <1>2, <1>3, <1>4, <1>5 DEF LobbyInv

\* One flag of a player in room j has been set.
LEMMA FlagSet ==
    ASSUME LobbyInv, NEW p \in PlayerIds, NEW profile \in Profile,
           mPlayers' = [mPlayers EXCEPT ![p] = profile],
           profile.roomId = mPlayers[p].roomId, profile.connected = mPlayers[p].connected,
           NEW j, p \in Members(j)
    PROVE  FlagsChanged(j)
<1>1. /\ mPlayers' \in Seq(Profile) /\ Len(mPlayers') <= MaxProfiles
      /\ PlayerIds' = PlayerIds
      /\ mPlayers'[p] = profile
      /\ \A q \in PlayerIds : q # p => mPlayers'[q] = mPlayers[q]
  BY ProfileReplaced
<1> QED
  BY <1>1 DEF FlagsChanged

\* A ready toggle changes one flag, and starts a new round or leaves the match.
LEMMA ToggleReadyFacts ==
    ASSUME LobbyInv, NEW p \in PlayerIds, NEW flag \in BOOLEAN, ToggleReady(p, flag),
           NEW j, j = mPlayers[p].roomId
    PROVE  /\ j \in DOMAIN mRooms /\ FlagsChanged(j)
           /\ \A q \in PlayerIds : mPlayers'[q].playAgain = mPlayers[q].playAgain
           /\ ReadyRoundPlayed(j)' /\ FullTable(j)'
           /\ \E match :
                /\ MatchOK(match) /\ MatchReplaced(j, match)
                /\ \/ ~CanStart(j) /\ match = mRooms[j].match
                   \/ /\ CanStart(j) /\ match.phase = "running"
                      /\ \A q \in DOMAIN match.filled : match.filled[q] = {}
<1> DEFINE profile == [mPlayers[p] EXCEPT !.ready = flag]
<1>1. /\ j # NoRoom /\ mPlayers' = [mPlayers EXCEPT ![p] = profile]
      /\ (CanStart(j) /\ StartRoomMatch(j)) \/ (~CanStart(j) /\ UNCHANGED mRooms)
  BY DEF ToggleReady
<1>2. j \in DOMAIN mRooms /\ p \in Members(j) /\ mPlayers[p] \in Profile
  BY <1>1, SeatFacts
<1>3. /\ profile \in Profile /\ profile.roomId = mPlayers[p].roomId
      /\ profile.connected = mPlayers[p].connected /\ profile.playAgain = mPlayers[p].playAgain
  BY <1>2 DEF Profile
<1> HIDE DEF profile
<1>4. FlagsChanged(j)
  BY <1>1, <1>2, <1>3, FlagSet
<1>5. \A q \in PlayerIds : mPlayers'[q].playAgain = mPlayers[q].playAgain
  BY <1>1, <1>3, ProfileReplaced
<1>6. /\ MatchOK(mRooms[j].match) /\ RoomSound(j)
      /\ mRooms[j].playerIds \in Seq(PlayerIds)
      /\ Len(mRooms[j].playerIds) \in 1..mRooms[j].maxPlayers
      /\ mRooms[j].maxPlayers \in MinPlayers..MaxPlayers
      /\ Members(j) \subseteq PlayerIds
  BY <1>2, RoomFacts DEF LobbyInv
<1>7. CASE CanStart(j) /\ StartRoomMatch(j)
  <2> DEFINE match == StartNextRound(SetPlayers(mRooms[j].match, mRooms[j].playerIds))
  <2>1. /\ MatchOK(match) /\ match.mPlayerIds = mRooms[j].playerIds /\ match.phase = "running"
        /\ \A q \in DOMAIN match.filled : match.filled[q] = {}
    BY <1>6, SetPlayersFacts
  <2>2. mRooms' = [mRooms EXCEPT ![j].match = match]
    BY <1>7 DEF StartRoomMatch
  <2> HIDE DEF match
  <2>3. MatchReplaced(j, match)
    BY <1>2, <2>2, MatchUpdated
  <2>4. Len(mRooms[j].playerIds) = mRooms[j].maxPlayers
    BY <1>6, <1>7, SizesAssumption DEF CanStart, AllPlayersReadyInRoom
  <2>5. ReadyRoundPlayed(j)' /\ FullTable(j)'
    BY <1>6, <2>1, <2>3, <2>4 DEF MatchReplaced, ReadyRoundPlayed, FullTable, RoomSound
  <2> QED BY <1>2, <1>4, <1>5, <1>7, <2>1, <2>3, <2>5
<1>8. CASE ~CanStart(j) /\ UNCHANGED mRooms
  <2>1. MatchReplaced(j, mRooms[j].match)
    BY <1>8 DEF MatchReplaced
  <2>2. FullTable(j)'
    BY <1>6, <1>8 DEF FullTable, RoomSound
  <2>3. ReadyRoundPlayed(j)'
    <3> SUFFICES ASSUME Len(mRooms[j].playerIds) = mRooms[j].maxPlayers,
                        \A q \in Members(j) : mPlayers'[q].ready
                 PROVE  FALSE
      BY <1>8 DEF ReadyRoundPlayed, Members
    <3>1. \A q \in Members(j) : mPlayers'[q].connected
      BY <1>4, <1>6 DEF FlagsChanged, RoomSound
    <3>2. Len(mRooms[j].playerIds) >= mRooms[j].maxPlayers
          /\ Len(mRooms[j].playerIds) >= MinPlayers
      BY <1>6, SizesAssumption
    <3> QED BY <1>2, <1>8, <3>1, <3>2 DEF CanStart, AllPlayersReadyInRoom
  <2> QED BY <1>2, <1>4, <1>5, <1>6, <1>8, <2>1, <2>2, <2>3
<1> QED
  BY <1>1, <1>7, <1>8

\* The vote that p has changed is complete in room j.
VoteComplete(p, flag, j) ==
    AllPlayersReadyForReplay([mPlayers EXCEPT ![p].playAgain = flag], j)

\* A vote changes one flag, or starts the match again and clears the votes.
LEMMA TogglePlayAgainFacts ==
    ASSUME LobbyInv, NEW p \in PlayerIds, NEW flag \in BOOLEAN, TogglePlayAgain(p, flag),
           NEW j, j = mPlayers[p].roomId
    PROVE  /\ j \in DOMAIN mRooms /\ FlagsChanged(j)
           /\ mPlayers'[p].playAgain => flag
           /\ \A q \in PlayerIds : q # p => (mPlayers'[q].playAgain => mPlayers[q].playAgain)
           /\ ~(\A q \in Members(j) : mPlayers'[q].playAgain)
           /\ ReadyRoundPlayed(j)' /\ FullTable(j)'
           /\ \E match :
                /\ MatchOK(match) /\ MatchReplaced(j, match)
                /\ \/ ~VoteComplete(p, flag, j) /\ match = mRooms[j].match
                   \/ /\ VoteComplete(p, flag, j) /\ match.phase = "running"
                      /\ \A q \in DOMAIN match.filled : match.filled[q] = {}
<1> DEFINE profile == [mPlayers[p] EXCEPT !.playAgain = flag]
           voted == [mPlayers EXCEPT ![p] = profile]
<1>1. /\ j # NoRoom /\ (VoteComplete(p, flag, j) <=> AllPlayersReadyForReplay(voted, j))
      /\ \/ /\ AllPlayersReadyForReplay(voted, j)
            /\ mRooms' = [mRooms EXCEPT ![j].match = StartNextRound(mRooms[j].match)]
            /\ mPlayers' = ResetReplayVotes(voted, j)
         \/ /\ ~AllPlayersReadyForReplay(voted, j)
            /\ mPlayers' = voted
            /\ UNCHANGED mRooms
  BY DEF TogglePlayAgain, VoteComplete
<1>2. j \in DOMAIN mRooms /\ p \in Members(j) /\ mPlayers[p] \in Profile
  BY <1>1, SeatFacts
<1>3. /\ profile \in Profile /\ profile.roomId = mPlayers[p].roomId
      /\ profile.connected = mPlayers[p].connected /\ profile.ready = mPlayers[p].ready
      /\ profile.playAgain = flag
  BY <1>2 DEF Profile
<1>4. /\ MatchOK(mRooms[j].match) /\ RoomSound(j)
      /\ mRooms[j].playerIds # <<>>
      /\ Members(j) \subseteq PlayerIds
  BY <1>2, RoomFacts DEF LobbyInv
<1> HIDE DEF profile
<1>5. /\ voted \in Seq(Profile) /\ Len(voted) = Len(mPlayers) /\ voted[p] = profile
      /\ \A q \in PlayerIds : q # p => voted[q] = mPlayers[q]
  BY <1>3, ExceptSeq DEF LobbyInv, PlayerIds
<1> HIDE DEF voted
<1>6. CASE /\ AllPlayersReadyForReplay(voted, j)
           /\ mRooms' = [mRooms EXCEPT ![j].match = StartNextRound(mRooms[j].match)]
           /\ mPlayers' = ResetReplayVotes(voted, j)
  <2> DEFINE match == StartNextRound(mRooms[j].match)
  <2>1. /\ MatchOK(match) /\ match.mPlayerIds = mRooms[j].match.mPlayerIds
        /\ match.phase = "running"
        /\ \A q \in DOMAIN match.filled : match.filled[q] = {}
    BY <1>4, StartFacts
  <2>2. MatchReplaced(j, match)
    BY <1>2, <1>6, MatchUpdated
  <2> HIDE DEF match
  <2>3. DOMAIN voted = PlayerIds /\ \A q \in PlayerIds : voted[q] \in Profile
    BY <1>5, LenProperties DEF PlayerIds
  <2>4. \A q \in PlayerIds :
          mPlayers'[q] = IF q \in Members(j) THEN [voted[q] EXCEPT !.playAgain = FALSE, !.ready = FALSE]
                                             ELSE voted[q]
    BY <1>6, <2>3 DEF ResetReplayVotes
  <2>5. \A q \in PlayerIds : /\ mPlayers'[q] \in Profile
                             /\ mPlayers'[q].roomId = voted[q].roomId
                             /\ mPlayers'[q].connected = voted[q].connected
                             /\ q \in Members(j) => ~mPlayers'[q].playAgain /\ ~mPlayers'[q].ready
                             /\ q \notin Members(j) => mPlayers'[q] = voted[q]
    <3> SUFFICES ASSUME NEW q \in PlayerIds, q \in Members(j)
                 PROVE  /\ mPlayers'[q] \in Profile
                        /\ mPlayers'[q].roomId = voted[q].roomId
                        /\ mPlayers'[q].connected = voted[q].connected
                        /\ ~mPlayers'[q].playAgain /\ ~mPlayers'[q].ready
      BY <2>3, <2>4
    <3>1. mPlayers'[q] = [voted[q] EXCEPT !.playAgain = FALSE, !.ready = FALSE] /\ voted[q] \in Profile
      BY <2>3, <2>4
    <3> QED BY <3>1 DEF Profile
  <2>6. mPlayers' \in Seq(Profile) /\ Len(mPlayers') = Len(mPlayers)
    <3>1. mPlayers' \in [DOMAIN voted -> Profile]
      BY <1>6, <2>3, <2>5 DEF ResetReplayVotes
    <3> QED BY <1>5, <3>1, VectorRebuilt
  <2>7. FlagsChanged(j)
    BY <1>2, <1>3, <1>5, <2>5, <2>6 DEF FlagsChanged, LobbyInv, PlayerIds
  <2>8. \A q \in Members(j) : ~mPlayers'[q].playAgain /\ ~mPlayers'[q].ready
    BY <1>4, <2>5
  <2>9. ReadyRoundPlayed(j)' /\ FullTable(j)'
    <3>1. Members(j)' = Members(j)
      BY <2>2 DEF MatchReplaced, Members
    <3> QED BY <1>2, <1>4, <2>1, <2>2, <2>8, <3>1
            DEF MatchReplaced, ReadyRoundPlayed, FullTable, RoomSound
  <2>10. \A q \in PlayerIds : mPlayers'[q].playAgain => voted[q].playAgain
    BY <1>6, <2>4, <2>8
  <2>11. /\ mPlayers'[p].playAgain => flag
         /\ \A q \in PlayerIds : q # p => (mPlayers'[q].playAgain => mPlayers[q].playAgain)
    BY <1>3, <1>5, <2>10
  <2> QED BY <1>1, <1>2, <1>4, <1>6, <2>1, <2>2, <2>7, <2>8, <2>9, <2>11
<1>7. CASE ~AllPlayersReadyForReplay(voted, j) /\ mPlayers' = voted /\ UNCHANGED mRooms
  <2>1. MatchReplaced(j, mRooms[j].match)
    BY <1>7 DEF MatchReplaced
  <2>2. FlagsChanged(j)
    BY <1>2, <1>3, <1>7, FlagSet DEF voted
  <2>3. ~(\A q \in Members(j) : mPlayers'[q].playAgain)
    <3>1. \A q \in Members(j) : voted[q].connected
      BY <1>3, <1>4, <1>5 DEF RoomSound
    <3> QED BY <1>2, <1>4, <1>7, <3>1 DEF AllPlayersReadyForReplay
  <2>4. \A q \in Members(j) : mPlayers'[q].ready = mPlayers[q].ready
    BY <1>3, <1>4, <1>5, <1>7
  <2>5. ReadyRoundPlayed(j)' /\ FullTable(j)'
    BY <1>4, <1>7, <2>4 DEF ReadyRoundPlayed, FullTable, RoomSound, Members
  <2>6. /\ mPlayers'[p].playAgain => flag
        /\ \A q \in PlayerIds : q # p => (mPlayers'[q].playAgain => mPlayers[q].playAgain)
    BY <1>3, <1>5, <1>7
  <2> QED BY <1>1, <1>2, <1>4, <1>7, <2>1, <2>2, <2>3, <2>5, <2>6
<1> QED
  BY <1>1, <1>6, <1>7

LEMMA FillCellFacts ==
    ASSUME LobbyInv, NEW p \in PlayerIds, NEW c \in Cells, FillCell(p, c),
           NEW j, j = mPlayers[p].roomId
    PROVE  /\ j \in DOMAIN mRooms /\ FlagsChanged(j) /\ UNCHANGED mPlayers
           /\ ReadyRoundPlayed(j)' /\ FullTable(j)'
           /\ \E match :
                /\ MatchOK(match) /\ MatchReplaced(j, match)
                /\ match.phase # "idle"
                /\ DOMAIN match.filled = DOMAIN mRooms[j].match.filled
                /\ p \in DOMAIN match.filled
                /\ match.filled[p] = mRooms[j].match.filled[p] \cup {c}
                /\ \A q \in DOMAIN match.filled :
                     q # p => match.filled[q] = mRooms[j].match.filled[q]
<1> DEFINE match == Filled(mRooms[j].match, p, c)
<1>1. /\ j \in DOMAIN mRooms /\ p \in DOMAIN mRooms[j].match.filled
      /\ mRooms' = [mRooms EXCEPT ![j].match = match] /\ UNCHANGED mPlayers
  BY DEF FillCell, MatchOf
<1>2. MatchOK(mRooms[j].match) /\ RoomSound(j)
  BY <1>1, RoomFacts DEF LobbyInv
<1>3. /\ MatchOK(match) /\ match.mPlayerIds = mRooms[j].match.mPlayerIds /\ match.phase # "idle"
      /\ DOMAIN match.filled = DOMAIN mRooms[j].match.filled
      /\ match.filled[p] = mRooms[j].match.filled[p] \cup {c}
      /\ \A q \in DOMAIN match.filled : q # p => match.filled[q] = mRooms[j].match.filled[q]
  BY <1>1, <1>2, FilledFacts
<1>4. MatchReplaced(j, match)
  BY <1>1, MatchUpdated
<1> HIDE DEF match
<1>5. FlagsChanged(j)
  BY <1>1 DEF FlagsChanged, LobbyInv, PlayerIds
<1>6. ReadyRoundPlayed(j)' /\ FullTable(j)'
  BY <1>1, <1>2, <1>3, <1>4 DEF ReadyRoundPlayed, FullTable, RoomSound, MatchReplaced, Members
<1> QED
  BY <1>1, <1>3, <1>4, <1>5, <1>6

\* The inductive step, one case per operation.
LEMMA NextLobbyInv == LobbyInv /\ [Next]_vars => LobbyInv'
<1> SUFFICES ASSUME LobbyInv, [Next]_vars PROVE LobbyInv'
  OBVIOUS
<1>1. CASE RegisterPlayer
  BY <1>1, RegisterKeepsInv
<1>2. ASSUME NEW p \in ConnectedIds, NEW n \in AskedSizes, CreateRoomForPlayer(p, n)
      PROVE  LobbyInv'
  BY <1>2, CreateFacts, CreateKeepsInv, SizesAssumption
<1>3. ASSUME NEW p \in ConnectedIds, NEW r \in DOMAIN mRooms, JoinRoomForPlayer(p, r)
      PROVE  LobbyInv'
  BY <1>3, JoinFacts, JoinKeepsInv
<1>4. ASSUME NEW p \in ConnectedIds, LeaveRoom(p)
      PROVE  LobbyInv'
  BY <1>4, LeaveKeepsInv DEF ConnectedIds
<1>5. ASSUME NEW p \in ConnectedIds, NEW flag \in BOOLEAN, ToggleReady(p, flag)
      PROVE  LobbyInv'
  <2>1. PICK j : j = mPlayers[p].roomId
    OBVIOUS
  <2> QED BY <1>5, <2>1, ToggleReadyFacts, MatchStepKeepsInv DEF ConnectedIds
<1>6. ASSUME NEW p \in ConnectedIds, NEW flag \in BOOLEAN, TogglePlayAgain(p, flag)
      PROVE  LobbyInv'
  <2>1. PICK j : j = mPlayers[p].roomId
    OBVIOUS
  <2> QED BY <1>6, <2>1, TogglePlayAgainFacts, MatchStepKeepsInv DEF ConnectedIds
<1>7. ASSUME NEW p \in ConnectedIds, NEW c \in Cells, FillCell(p, c)
      PROVE  LobbyInv'
  <2>1. PICK j : j = mPlayers[p].roomId
    OBVIOUS
  <2> QED BY <1>7, <2>1, FillCellFacts, MatchStepKeepsInv DEF ConnectedIds
<1>8. ASSUME NEW p \in ConnectedIds, Disconnect(p)
      PROVE  LobbyInv'
  BY <1>8, DisconnectKeepsInv DEF ConnectedIds
<1>9. CASE UNCHANGED vars
  BY <1>9 DEF vars, LobbyInv, RoomSound, ProfileSound, ReadyRoundPlayed, FullTable,
              RoomOK, MatchOK, Boards, PlayerIds, Members
<1> QED
  BY <1>1, <1>2, <1>3, <1>4, <1>5, <1>6, <1>7, <1>8, <1>9, Zenon DEF Next

\* The lobby's inductive invariant: every room's entry and every profile is
\* sound, from which everything the runs check of states follows.
THEOREM LobbyInvariant == Spec => []LobbyInv
<1> QED BY InitLobbyInv, NextLobbyInv, PTL DEF Spec

-----------------------------------------------------------------------------
(* What holds of every state                                                *)

\* Profiles and rooms are well formed in every run of the server: no room is
\* empty, holds a player twice or holds more players than it has places.
THEOREM LobbyTyped == Spec => []LobbyTypeOK
<1> QED BY LobbyInvariant, LobbyInvParts, PTL

\* A profile has the id of a room exactly when that room has the player, whatever
\* rooms are closed and their ids given out again.
THEOREM MembershipAlwaysAgrees == Spec => []MembershipAgrees
<1> QED BY LobbyInvariant, LobbyInvParts, PTL

\* A room that is open has its host at its head and nobody in it is gone: leaving
\* and disconnecting both take the seat, and the host's takes the room.
THEOREM HostsStayPresent == Spec => []HostAlwaysPresent
<1> QED BY LobbyInvariant, LobbyInvParts, PTL

\* Ready flags and votes never leave the room they were set in.
THEOREM FlagsNeverLeaveRooms == Spec => []FlagsStayInRooms
<1> QED BY LobbyInvariant, LobbyInvParts, PTL

\* A full room whose players are all ready has its round, played by them.
THEOREM ReadyRoomsPlay == Spec => []ReadyRoomHasItsRound
<1> QED BY LobbyInvariant, LobbyInvParts, PTL

\* Every line-up is a full table headed by the host of the room, or nobody.
THEOREM LineupsAreFullTables == Spec => []RoundsHaveFullTables
<1> QED BY LobbyInvariant, LobbyInvParts, PTL

-----------------------------------------------------------------------------
(* What holds of every step                                                 *)

\* A player without a room goes: nothing but the own profile changes.
WentIdle(p) ==
    /\ mPlayers[p].roomId = NoRoom /\ mPlayers'[p].roomId = NoRoom
    /\ PlayerIds' = PlayerIds
    /\ \A q \in PlayerIds : q # p => mPlayers'[q] = mPlayers[q]
    /\ UNCHANGED mRooms

\* The match of room j goes on: it stays, starts again on empty boards, or a cell of
\* p is filled in.
MatchMoved(p, j, match) ==
    LET before == mRooms[j].match IN
    \/ match = before
    \/ /\ match.phase = "running"
       /\ \E roster \in SUBSET PlayerIds : match.filled = [q \in roster |-> {}]
    \/ /\ before.phase = "running" /\ p \in DOMAIN before.filled
       /\ \E c \in Cells \ before.filled[p] : match = Filled(before, p, c)

LEMMA StartedMoves ==
    ASSUME NEW p, NEW j, NEW match, MatchOK(match), match.phase = "running",
           \A q \in DOMAIN match.filled : match.filled[q] = {}
    PROVE  MatchMoved(p, j, match)
<1>1. PICK ids \in SUBSET PlayerIds : match.filled \in [ids -> SUBSET Cells]
  BY DEF MatchOK, Boards
<1>2. match.filled = [q \in ids |-> {}]
  BY <1>1
<1> QED
  BY <1>2 DEF MatchMoved

LEMMA FillMoves ==
    ASSUME LobbyInv, NEW p, NEW c \in Cells, FillCell(p, c),
           NEW j, j = mPlayers[p].roomId, NEW match, MatchReplaced(j, match)
    PROVE  MatchMoved(p, j, match)
<1>1. /\ j \in DOMAIN mRooms /\ p \in DOMAIN mRooms[j].match.filled
      /\ mRooms[j].match.phase = "running" /\ c \notin mRooms[j].match.filled[p]
      /\ mRooms' = [mRooms EXCEPT ![j].match = Filled(mRooms[j].match, p, c)]
  BY DEF FillCell, MatchOf
<1>2. MatchReplaced(j, Filled(mRooms[j].match, p, c))
  BY <1>1, MatchUpdated
<1>3. match = Filled(mRooms[j].match, p, c)
  BY <1>2 DEF MatchReplaced
<1> QED
  BY <1>1, <1>3 DEF MatchMoved

\* Flags and the match of the room of p change, but no vote is completed that is
\* left standing, and no board but that of p is filled.
PlayedOn(p, j) ==
    /\ j = mPlayers[p].roomId
    /\ FlagsChanged(j)
    /\ AllVoted(j)' => AllVoted(j)
    /\ \E match :
        /\ MatchReplaced(j, match) /\ MatchMoved(p, j, match)
        /\ \A q \in DOMAIN match.filled \cap DOMAIN mRooms[j].match.filled :
             q # p => match.filled[q] \subseteq mRooms[j].match.filled[q]

\* The kinds of steps there are.
LobbyStep ==
    \/ RegisterPlayer
    \/ \E p \in PlayerIds : WentIdle(p)
    \/ \E p \in PlayerIds, j \in 1..MaxProfiles, n \in MinPlayers..MaxPlayers :
        RoomOpened(p, j, n)
    \/ \E p \in PlayerIds, j \in DOMAIN mRooms :
        \/ SeatTaken(p, j)
        \/ IsHost(j, p) /\ RoomClosed(p, j)
        \/ ~IsHost(j, p) /\ SeatGivenUp(p, j)
        \/ PlayedOn(p, j)

LEMMA GiveUpStep ==
    ASSUME LobbyInv, NEW p \in PlayerIds, mPlayers[p].roomId # NoRoom,
           NEW profiles, GivenUpBy(profiles, p), GiveUpRoom(profiles, p)
    PROVE  LobbyStep
<1>1. PICK j : j = mPlayers[p].roomId
  OBVIOUS
<1> QED
  BY <1>1, GiveUpFacts DEF LobbyStep

LEMMA DisconnectStep ==
    ASSUME LobbyInv, NEW p \in PlayerIds, Disconnect(p)
    PROVE  LobbyStep
<1> DEFINE gone == [mPlayers EXCEPT ![p].connected = FALSE, ![p].ready = FALSE,
                                    ![p].playAgain = FALSE]
           profile == [mPlayers[p] EXCEPT !.connected = FALSE, !.ready = FALSE,
                                          !.playAgain = FALSE]
<1>1. /\ gone = [mPlayers EXCEPT ![p] = profile]
      /\ profile \in Profile /\ profile.roomId = mPlayers[p].roomId
      /\ GivenUpBy(gone, p)
  BY GoneFacts
<1>2. \/ mPlayers[p].roomId = NoRoom /\ mPlayers' = gone /\ UNCHANGED mRooms
      \/ mPlayers[p].roomId # NoRoom /\ GiveUpRoom(gone, p)
  BY DEF Disconnect
<1> HIDE DEF gone, profile
<1>3. CASE mPlayers[p].roomId # NoRoom /\ GiveUpRoom(gone, p)
  BY <1>1, <1>3, GiveUpStep
<1>4. CASE mPlayers[p].roomId = NoRoom /\ mPlayers' = gone /\ UNCHANGED mRooms
  <2>1. WentIdle(p)
    BY <1>1, <1>4, ProfileReplaced DEF WentIdle
  <2> QED BY <2>1 DEF LobbyStep
<1> QED
  BY <1>2, <1>3, <1>4

LEMMA NextIsLobbyStep ==
    ASSUME LobbyInv, Next
    PROVE  LobbyStep
<1>1. CASE RegisterPlayer
  BY <1>1 DEF LobbyStep
<1>2. ASSUME NEW p \in ConnectedIds, NEW n \in AskedSizes, CreateRoomForPlayer(p, n)
      PROVE  LobbyStep
  <2>1. PICK j \in 1..MaxProfiles : RoomOpened(p, j, n)
    BY <1>2, CreateFacts, SizesAssumption
  <2>2. p \in PlayerIds /\ n \in MinPlayers..MaxPlayers
    BY <2>1 DEF RoomOpened
  <2> QED BY <2>1, <2>2 DEF LobbyStep
<1>3. ASSUME NEW p \in ConnectedIds, NEW r \in DOMAIN mRooms, JoinRoomForPlayer(p, r)
      PROVE  LobbyStep
  BY <1>3, JoinFacts DEF LobbyStep, ConnectedIds
<1>4. ASSUME NEW p \in ConnectedIds, LeaveRoom(p)
      PROVE  LobbyStep
  <2>1. GivenUpBy(mPlayers, p) /\ p \in PlayerIds
    BY DEF GivenUpBy, LobbyInv, ConnectedIds
  <2> QED BY <1>4, <2>1, GiveUpStep DEF LeaveRoom
<1>5. ASSUME NEW p \in PlayerIds, NEW flag \in BOOLEAN, ToggleReady(p, flag)
      PROVE  LobbyStep
  <2>1. PICK j : j = mPlayers[p].roomId
    OBVIOUS
  <2>2. /\ j \in DOMAIN mRooms /\ FlagsChanged(j)
        /\ \A q \in PlayerIds : mPlayers'[q].playAgain = mPlayers[q].playAgain
    BY <1>5, <2>1, ToggleReadyFacts
  <2>3. PICK match : /\ MatchOK(match) /\ MatchReplaced(j, match)
                     /\ \/ match = mRooms[j].match
                        \/ /\ match.phase = "running"
                           /\ \A q \in DOMAIN match.filled : match.filled[q] = {}
    BY <1>5, <2>1, ToggleReadyFacts
  <2>4. AllVoted(j)' => AllVoted(j)
    BY <2>2, <2>3, RoomFacts DEF AllVoted, Members, MatchReplaced
  <2>5. MatchMoved(p, j, match)
    <3>1. CASE match = mRooms[j].match
      BY <3>1 DEF MatchMoved
    <3>2. CASE match.phase = "running" /\ \A q \in DOMAIN match.filled : match.filled[q] = {}
      BY <2>3, <3>2, StartedMoves
    <3> QED BY <2>3, <3>1, <3>2
  <2>6. PlayedOn(p, j)
    BY <2>1, <2>2, <2>3, <2>4, <2>5 DEF PlayedOn
  <2> QED BY <2>2, <2>6 DEF LobbyStep
<1>6. ASSUME NEW p \in PlayerIds, NEW flag \in BOOLEAN, TogglePlayAgain(p, flag)
      PROVE  LobbyStep
  <2>1. PICK j : j = mPlayers[p].roomId
    OBVIOUS
  <2>2. /\ j \in DOMAIN mRooms /\ FlagsChanged(j)
        /\ ~(\A q \in Members(j) : mPlayers'[q].playAgain)
    BY <1>6, <2>1, TogglePlayAgainFacts
  <2>3. PICK match : /\ MatchOK(match) /\ MatchReplaced(j, match)
                     /\ \/ ~VoteComplete(p, flag, j) /\ match = mRooms[j].match
                        \/ /\ VoteComplete(p, flag, j) /\ match.phase = "running"
                           /\ \A q \in DOMAIN match.filled : match.filled[q] = {}
    BY <1>6, <2>1, TogglePlayAgainFacts
  <2>4. ~AllVoted(j)'
    BY <2>2, <2>3 DEF AllVoted, Members, MatchReplaced
  <2>5. MatchMoved(p, j, match)
    <3>1. CASE match = mRooms[j].match
      BY <3>1 DEF MatchMoved
    <3>2. CASE match.phase = "running" /\ \A q \in DOMAIN match.filled : match.filled[q] = {}
      BY <2>3, <3>2, StartedMoves
    <3> QED BY <2>3, <3>1, <3>2
  <2>6. PlayedOn(p, j)
    BY <2>1, <2>2, <2>3, <2>4, <2>5 DEF PlayedOn
  <2> QED BY <2>2, <2>6 DEF LobbyStep
<1>7. ASSUME NEW p \in PlayerIds, NEW c \in Cells, FillCell(p, c)
      PROVE  LobbyStep
  <2>1. PICK j : j = mPlayers[p].roomId
    OBVIOUS
  <2>2. j \in DOMAIN mRooms /\ FlagsChanged(j) /\ UNCHANGED mPlayers
    BY <1>7, <2>1, FillCellFacts
  <2>3. PICK match : /\ MatchReplaced(j, match)
                     /\ \A q \in DOMAIN match.filled :
                          q # p => match.filled[q] = mRooms[j].match.filled[q]
    BY <1>7, <2>1, FillCellFacts
  <2>4. AllVoted(j)' => AllVoted(j)
    BY <2>2, <2>3 DEF AllVoted, Members, MatchReplaced
  <2>5. MatchMoved(p, j, match)
    BY <1>7, <2>1, <2>3, FillMoves
  <2>6. PlayedOn(p, j)
    BY <2>1, <2>2, <2>3, <2>4, <2>5 DEF PlayedOn
  <2> QED BY <2>2, <2>6 DEF LobbyStep
<1>8. ASSUME NEW p \in PlayerIds, Disconnect(p)
      PROVE  LobbyStep
  BY <1>8, DisconnectStep
<1>9. ConnectedIds \subseteq PlayerIds
  BY DEF ConnectedIds
<1> QED
  BY <1>1, <1>2, <1>3, <1>4, <1>5, <1>6, <1>7, <1>8, <1>9, Zenon DEF Next

\* Votes are looked at in a room that had its members before and has them after.
LEMMA VotesUnmoved ==
    ASSUME LobbyInv, NEW r \in DOMAIN mRooms, mRooms'[r] = mRooms[r],
           \A q \in Members(r) : mPlayers'[q].playAgain = mPlayers[q].playAgain,
           AllVoted(r)'
    PROVE  AllVoted(r)
  BY DEF AllVoted, Members

LEMMA VotesStep ==
    ASSUME LobbyInv, LobbyStep,
           NEW r \in DOMAIN mRooms \cap DOMAIN mRooms', ~AllVoted(r), AllVoted(r)'
    PROVE  Len(mRooms'[r].playerIds) < Len(mRooms[r].playerIds)
<1> SUFFICES ASSUME ~(Len(mRooms'[r].playerIds) < Len(mRooms[r].playerIds)) PROVE FALSE
  OBVIOUS
<1>1. /\ r # NoRoom /\ Members(r) \subseteq PlayerIds
      /\ Len(mRooms[r].playerIds) \in Nat
      /\ \A q \in PlayerIds : mPlayers[q].roomId = r <=> q \in Members(r)
  BY RoomFacts, LenProperties DEF LobbyInv, RoomSound
<1>2. CASE RegisterPlayer
  <2>1. \A q \in PlayerIds : mPlayers'[q] = mPlayers[q]
    BY <1>2, AppendProperties, LenProperties DEF RegisterPlayer, LobbyInv, PlayerIds, NewProfile, Profile, NoRoom
  <2> QED BY <1>1, <1>2, <2>1, VotesUnmoved DEF RegisterPlayer
<1>3. ASSUME NEW p \in PlayerIds, WentIdle(p) PROVE FALSE
  BY <1>1, <1>3, VotesUnmoved DEF WentIdle
<1>4. ASSUME NEW p \in PlayerIds, NEW j \in 1..MaxProfiles, NEW n, RoomOpened(p, j, n) PROVE FALSE
  BY <1>1, <1>4, VotesUnmoved DEF RoomOpened
<1>5. ASSUME NEW p \in PlayerIds, NEW j \in DOMAIN mRooms, SeatTaken(p, j) PROVE FALSE
  <2>1. CASE r = j
    <3>1. p \in PlayerIds /\ p \notin Range(mRooms[j].playerIds)
          /\ mRooms'[j].playerIds = Append(mRooms[j].playerIds, p)
      BY <1>5 DEF SeatTaken, Members
    <3>2. mRooms[j].playerIds \in Seq(PlayerIds) /\ IsInjective(mRooms[j].playerIds)
      BY RoomFacts
    <3>3. p \in Range(mRooms'[j].playerIds)
      BY <3>1, <3>2, AppendFacts
    <3>4. p \in Members(r)'
      BY <2>1, <3>3 DEF Members
    <3> QED BY <1>5, <3>4 DEF SeatTaken, AllVoted
  <2>2. CASE r # j
    BY <1>1, <1>5, <2>2, VotesUnmoved DEF SeatTaken
  <2> QED BY <2>1, <2>2
<1>6. ASSUME NEW p \in PlayerIds, NEW j \in DOMAIN mRooms, RoomClosed(p, j) PROVE FALSE
  <2>1. r # j /\ mRooms'[r] = mRooms[r]
    BY <1>6 DEF RoomClosed
  <2>2. \A q \in Members(r) : q \notin Members(j)
    BY <1>1, <2>1, SeatFacts
  <2> QED BY <1>1, <1>6, <2>1, <2>2, VotesUnmoved DEF RoomClosed
<1>7. ASSUME NEW p \in PlayerIds, NEW j \in DOMAIN mRooms, SeatGivenUp(p, j) PROVE FALSE
  <2>1. CASE r = j
    BY <1>1, <1>7, <2>1 DEF SeatGivenUp
  <2>2. CASE r # j
    <3>1. p \notin Members(r)
      BY <1>7, <2>2, SeatFacts DEF SeatGivenUp
    <3> QED BY <1>1, <1>7, <2>2, <3>1, VotesUnmoved DEF SeatGivenUp
  <2> QED BY <2>1, <2>2
<1>8. ASSUME NEW p \in PlayerIds, NEW j \in DOMAIN mRooms, PlayedOn(p, j) PROVE FALSE
  <2>1. CASE r = j
    BY <1>8, <2>1 DEF PlayedOn
  <2>2. CASE r # j
    <3>1. \A q \in Members(r) : q \notin Members(j)
      BY <1>1, <2>2, SeatFacts
    <3> QED BY <1>1, <1>8, <2>2, <3>1, VotesUnmoved DEF PlayedOn, FlagsChanged, MatchReplaced
  <2> QED BY <2>1, <2>2
<1> QED
  BY <1>2, <1>3, <1>4, <1>5, <1>6, <1>7, <1>8 DEF LobbyStep

\* A complete vote is answered in the step that completes it, unless it was
\* completed by somebody's departure.
THEOREM VotesAlwaysAnswered == Spec => VotesAnsweredUnlessLeft
<1> DEFINE Answered ==
        \A r \in DOMAIN mRooms \cap DOMAIN mRooms' :
            ~AllVoted(r) /\ AllVoted(r)' =>
                Len(mRooms'[r].playerIds) < Len(mRooms[r].playerIds)
<1>1. ASSUME LobbyInv, [Next]_vars PROVE Answered \/ UNCHANGED vars
  BY <1>1, NextIsLobbyStep, VotesStep
<1> HIDE DEF Answered
<1>2. LobbyInv /\ [Next]_vars => [Answered]_vars
  BY <1>1
<1>3. Spec => [][Answered]_vars
  BY <1>2, LobbyInvariant, PTL DEF Spec
<1> QED BY <1>3 DEF Answered, VotesAnsweredUnlessLeft

-----------------------------------------------------------------------------
(* The lobby keeps what Seating promises: every behaviour of HostEngine,    *)
(* seen as who sits where, which rooms are open, under whom and with how    *)
(* many places, is one of Seating.                                          *)

\* The three functions of Seating, by their values.
SeatOf(p) == IF p \in PlayerIds THEN mPlayers[p].roomId ELSE NoRoom
HostOf(r) == IF r \in DOMAIN mRooms THEN mRooms[r].hostPlayerId ELSE 0
PlacesOf(r) == IF r \in DOMAIN mRooms THEN mRooms[r].maxPlayers ELSE 0

LEMMA IdsBounded ==
    ASSUME LobbyInv
    PROVE  PlayerIds \subseteq AllIds /\ DOMAIN mRooms \subseteq AllIds
  BY SizesAssumption, LenProperties DEF LobbyInv, PlayerIds, AllIds

\* An open room has a host, one of its players, and at least one place.
LEMMA OpenRooms ==
    ASSUME LobbyInv, NEW r \in DOMAIN mRooms
    PROVE  HostOf(r) # 0 /\ HostOf(r) = mRooms[r].hostPlayerId /\ SeatOf(HostOf(r)) = r
<1>1. mRooms[r].hostPlayerId \in Members(r) /\ Members(r) \subseteq PlayerIds
  BY RoomFacts
<1>2. mRooms[r].hostPlayerId # 0
  BY <1>1 DEF PlayerIds
<1> QED
  BY <1>1, <1>2, SeatFacts DEF HostOf, SeatOf

\* As many are seated in a room as its list has ids.
LEMMA SeatedCounted ==
    ASSUME LobbyInv, NEW r \in DOMAIN mRooms
    PROVE  Cardinality({p \in AllIds : SeatOf(p) = r}) = Len(mRooms[r].playerIds)
<1>1. /\ mRooms[r].playerIds \in Seq(PlayerIds) /\ IsInjective(mRooms[r].playerIds)
      /\ r # NoRoom /\ Members(r) \subseteq PlayerIds
  BY RoomFacts
<1>2. {p \in AllIds : SeatOf(p) = r} = Members(r)
  BY <1>1, IdsBounded DEF LobbyInv, RoomSound, SeatOf
<1> QED
  BY <1>1, <1>2, IdsCounted DEF Members

LEMMA SeatingInit == Init => Lobby!Init
<1> SUFFICES ASSUME Init PROVE Lobby!Init
  OBVIOUS
<1>1. PlayerIds = {} /\ DOMAIN mRooms = {}
  BY DEF Init, PlayerIds
<1> QED
  BY <1>1 DEF Lobby!Init

-----------------------------------------------------------------------------
(* The steps                                                                *)

LEMMA SeatingUnmoved ==
    ASSUME \A p \in AllIds : SeatOf(p)' = SeatOf(p),
           \A r \in AllIds : HostOf(r)' = HostOf(r) /\ PlacesOf(r)' = PlacesOf(r)
    PROVE  UNCHANGED Lobby!vars
  BY DEF Lobby!vars, SeatOf, HostOf, PlacesOf

LEMMA RegisterStutters ==
    ASSUME LobbyInv, RegisterPlayer
    PROVE  UNCHANGED Lobby!vars
<1>1. /\ PlayerIds' = PlayerIds \cup {Len(mPlayers) + 1} /\ Len(mPlayers) + 1 \notin PlayerIds
      /\ \A p \in PlayerIds : mPlayers'[p] = mPlayers[p]
      /\ mPlayers'[Len(mPlayers) + 1].roomId = NoRoom
  <2>1. NewProfile \in Profile /\ NewProfile.roomId = NoRoom
    BY DEF NewProfile, Profile, NoRoom
  <2>2. /\ Len(mPlayers') = Len(mPlayers) + 1 /\ Len(mPlayers) \in Nat
        /\ \A p \in PlayerIds : mPlayers'[p] = mPlayers[p]
        /\ mPlayers'[Len(mPlayers) + 1] = NewProfile
    BY <2>1, AppendProperties, LenProperties DEF RegisterPlayer, LobbyInv, PlayerIds
  <2> QED BY <2>1, <2>2 DEF PlayerIds
<1>2. \A p \in AllIds : SeatOf(p)' = SeatOf(p)
  BY <1>1 DEF SeatOf
<1>3. \A r \in AllIds : HostOf(r)' = HostOf(r) /\ PlacesOf(r)' = PlacesOf(r)
  BY DEF RegisterPlayer, HostOf, PlacesOf
<1> QED
  BY <1>2, <1>3, SeatingUnmoved

LEMMA IdleStutters ==
    ASSUME LobbyInv, NEW p \in PlayerIds, WentIdle(p)
    PROVE  UNCHANGED Lobby!vars
<1>1. \A q \in AllIds : SeatOf(q)' = SeatOf(q)
  BY DEF WentIdle, SeatOf
<1>2. \A r \in AllIds : HostOf(r)' = HostOf(r) /\ PlacesOf(r)' = PlacesOf(r)
  BY DEF WentIdle, HostOf, PlacesOf
<1> QED
  BY <1>1, <1>2, SeatingUnmoved

LEMMA PlayStutters ==
    ASSUME LobbyInv, NEW p \in PlayerIds, NEW j \in DOMAIN mRooms, PlayedOn(p, j)
    PROVE  UNCHANGED Lobby!vars
<1>1. \A q \in AllIds : SeatOf(q)' = SeatOf(q)
  BY DEF PlayedOn, FlagsChanged, SeatOf
<1>2. \A r \in AllIds : HostOf(r)' = HostOf(r) /\ PlacesOf(r)' = PlacesOf(r)
  BY DEF PlayedOn, MatchReplaced, HostOf, PlacesOf
<1> QED
  BY <1>1, <1>2, SeatingUnmoved

LEMMA CreateOpens ==
    ASSUME LobbyInv, NEW p \in PlayerIds, NEW j \in 1..MaxProfiles,
           NEW n \in MinPlayers..MaxPlayers, RoomOpened(p, j, n)
    PROVE  Lobby!Open(p, j, n)
<1>1. p \in AllIds /\ j \in AllIds
  BY IdsBounded DEF AllIds
<1>2. SeatOf(p) = NoRoom /\ HostOf(j) = 0
  BY DEF RoomOpened, SeatOf, HostOf
<1>3. \A q \in AllIds : SeatOf(q)' = IF q = p THEN j ELSE SeatOf(q)
  BY DEF RoomOpened, SeatOf
<1>4. \A r \in AllIds : /\ HostOf(r)' = IF r = j THEN p ELSE HostOf(r)
                        /\ PlacesOf(r)' = IF r = j THEN n ELSE PlacesOf(r)
  BY DEF RoomOpened, HostOf, PlacesOf
<1> QED
  BY <1>1, <1>2, <1>3, <1>4 DEF Lobby!Open, SeatOf, HostOf, PlacesOf

LEMMA JoinSits ==
    ASSUME LobbyInv, NEW p \in PlayerIds, NEW j \in DOMAIN mRooms, SeatTaken(p, j)
    PROVE  Lobby!Sit(p, j)
<1>1. p \in AllIds /\ j \in AllIds
  BY IdsBounded
<1>2. SeatOf(p) = NoRoom /\ HostOf(j) # 0
  BY OpenRooms DEF SeatTaken, SeatOf
<1>3. Cardinality({q \in AllIds : SeatOf(q) = j}) < PlacesOf(j)
  BY SeatedCounted DEF SeatTaken, PlacesOf
<1>4. \A q \in AllIds : SeatOf(q)' = IF q = p THEN j ELSE SeatOf(q)
  BY DEF SeatTaken, SeatOf
<1>5. \A r \in AllIds : HostOf(r)' = HostOf(r) /\ PlacesOf(r)' = PlacesOf(r)
  BY DEF SeatTaken, HostOf, PlacesOf
<1>6. {q \in AllIds : SeatOf(q) = j} = Lobby!Seated(j)
  BY DEF Lobby!Seated, SeatOf
<1>7. Lobby!Cardinality(Lobby!Seated(j)) < PlacesOf(j)
  <2>1. \A S : Lobby!Cardinality(S) = Cardinality(S)
    BY DEF Lobby!Cardinality, Cardinality
  <2> QED BY <1>3, <1>6, <2>1
<1> QED
  BY <1>1, <1>2, <1>4, <1>5, <1>7 DEF Lobby!Sit, SeatOf, HostOf, PlacesOf

LEMMA RemoveStands ==
    ASSUME LobbyInv, NEW p \in PlayerIds, NEW j \in DOMAIN mRooms, ~IsHost(j, p), SeatGivenUp(p, j)
    PROVE  Lobby!Stand(p)
<1>1. p \in AllIds /\ j \in AllIds /\ j # NoRoom
  BY IdsBounded, RoomFacts
<1>2. SeatOf(p) = j
  BY SeatFacts DEF SeatGivenUp, SeatOf
<1>3. HostOf(j) # p
  BY DEF IsHost, HostOf
<1>4. \A q \in AllIds : SeatOf(q)' = IF q = p THEN NoRoom ELSE SeatOf(q)
  BY DEF SeatGivenUp, SeatOf
<1>5. \A r \in AllIds : HostOf(r)' = HostOf(r) /\ PlacesOf(r)' = PlacesOf(r)
  BY DEF SeatGivenUp, HostOf, PlacesOf
<1> QED
  BY <1>1, <1>2, <1>3, <1>4, <1>5 DEF Lobby!Stand, SeatOf, HostOf, PlacesOf

LEMMA CloseCloses ==
    ASSUME LobbyInv, NEW p \in PlayerIds, NEW j \in DOMAIN mRooms, RoomClosed(p, j)
    PROVE  Lobby!Close(j)
<1>1. j \in AllIds /\ j # NoRoom
  BY IdsBounded, RoomFacts
<1>2. HostOf(j) # 0
  BY OpenRooms
<1>3. \A q \in AllIds : SeatOf(q)' = IF SeatOf(q) = j THEN NoRoom ELSE SeatOf(q)
  BY <1>1 DEF RoomClosed, SeatOf, LobbyInv, RoomSound
<1>4. \A r \in AllIds : /\ HostOf(r)' = IF r = j THEN 0 ELSE HostOf(r)
                        /\ PlacesOf(r)' = IF r = j THEN 0 ELSE PlacesOf(r)
  BY DEF RoomClosed, HostOf, PlacesOf
<1> QED
  BY <1>1, <1>2, <1>3, <1>4 DEF Lobby!Close, SeatOf, HostOf, PlacesOf

LEMMA SeatingStep == LobbyInv /\ [Next]_vars => [Lobby!Next]_Lobby!vars
<1> SUFFICES ASSUME LobbyInv, [Next]_vars PROVE Lobby!Next \/ UNCHANGED Lobby!vars
  OBVIOUS
<1>1. CASE UNCHANGED vars
  BY <1>1 DEF vars, Lobby!vars, PlayerIds
<1>2. CASE LobbyStep
  <2>1. ASSUME NEW p \in PlayerIds, NEW j \in 1..MaxProfiles, NEW n \in MinPlayers..MaxPlayers,
               RoomOpened(p, j, n)
        PROVE  Lobby!Next
    BY <2>1, CreateOpens, IdsBounded DEF Lobby!Next, AllIds
  <2>2. ASSUME NEW p \in PlayerIds, NEW j \in DOMAIN mRooms, SeatTaken(p, j)
        PROVE  Lobby!Next
    BY <2>2, JoinSits, IdsBounded DEF Lobby!Next
  <2>3. ASSUME NEW p \in PlayerIds, NEW j \in DOMAIN mRooms, RoomClosed(p, j)
        PROVE  Lobby!Next
    BY <2>3, CloseCloses, IdsBounded DEF Lobby!Next
  <2>4. ASSUME NEW p \in PlayerIds, NEW j \in DOMAIN mRooms, ~IsHost(j, p), SeatGivenUp(p, j)
        PROVE  Lobby!Next
    BY <2>4, RemoveStands, IdsBounded DEF Lobby!Next
  <2> QED BY <1>2, <2>1, <2>2, <2>3, <2>4, RegisterStutters, IdleStutters, PlayStutters
          DEF LobbyStep
<1> QED
  BY <1>1, <1>2, NextIsLobbyStep

\* The lobby implements Seating: one seat at most for everybody, in an open room;
\* no more players than places, its host in every open room, and everybody
\* unseated at once when the host goes.
THEOREM LobbyImplementsSeating == Spec => ImplementsSeating
<1> QED
  BY SeatingInit, SeatingStep, LobbyInvariant, PTL DEF Spec, ImplementsSeating, Lobby!Spec

-----------------------------------------------------------------------------
(* The rounds of a room are those of MatchRound, which LiveMatch is proved  *)
(* to implement.                                                            *)

\* While a round runs no board of it is full.
RaceOpen(match) ==
    match.phase = "running" => \A q \in DOMAIN match.filled : ~(Cells \subseteq match.filled[q])

RoundsInv == \A r \in DOMAIN mRooms : RaceOpen(mRooms[r].match)

LEMMA RoomMoves ==
    ASSUME LobbyInv, LobbyStep, NEW r \in DOMAIN mRooms'
    PROVE  \/ r \notin DOMAIN mRooms /\ mRooms'[r].match = FreshMatch
           \/ r \in DOMAIN mRooms /\ mRooms'[r].match = mRooms[r].match
           \/ r \in DOMAIN mRooms /\ \E p \in PlayerIds : MatchMoved(p, r, mRooms'[r].match)
<1>1. CASE RegisterPlayer \/ \E p \in PlayerIds : WentIdle(p)
  BY <1>1 DEF RegisterPlayer, WentIdle
<1>2. ASSUME NEW p \in PlayerIds, NEW j \in 1..MaxProfiles, NEW n, RoomOpened(p, j, n)
      PROVE  \/ r \notin DOMAIN mRooms /\ mRooms'[r].match = FreshMatch
             \/ r \in DOMAIN mRooms /\ mRooms'[r].match = mRooms[r].match
  BY <1>2 DEF RoomOpened
<1>3. ASSUME NEW p \in PlayerIds, NEW j \in DOMAIN mRooms,
             SeatTaken(p, j) \/ RoomClosed(p, j) \/ SeatGivenUp(p, j)
      PROVE  r \in DOMAIN mRooms /\ mRooms'[r].match = mRooms[r].match
  BY <1>3 DEF SeatTaken, RoomClosed, SeatGivenUp
<1>4. ASSUME NEW p \in PlayerIds, NEW j \in DOMAIN mRooms, PlayedOn(p, j)
      PROVE  /\ r \in DOMAIN mRooms
             /\ mRooms'[r].match = mRooms[r].match \/ MatchMoved(p, r, mRooms'[r].match)
  BY <1>4 DEF PlayedOn, MatchReplaced
<1> QED
  BY <1>1, <1>2, <1>3, <1>4 DEF LobbyStep

\* A cell fills the board of one player; when that is full, the round is over.
LEMMA BoardFilled ==
    ASSUME NEW match, MatchOK(match), RaceOpen(match), match.phase = "running",
           NEW p \in DOMAIN match.filled, NEW c \in Cells \ match.filled[p],
           NEW next, next = Filled(match, p, c)
    PROVE  /\ next.filled = [match.filled EXCEPT ![p] = @ \cup {c}]
           /\ \/ /\ Cells \subseteq next.filled[p] /\ next.phase = "finished"
                 /\ Finisher(next) = p
              \/ /\ ~(Cells \subseteq next.filled[p]) /\ next.phase = "running"
                 /\ Finisher(next) = 0
           /\ RaceOpen(next) /\ Finisher(match) = 0
<1> DEFINE boards == [match.filled EXCEPT ![p] = match.filled[p] \cup {c}]
           cells == match.filled[p] \cup {c}
           phase == IF Cells \subseteq cells THEN "finished" ELSE "running"
<1>1. next.filled = boards /\ next.phase = phase
  BY DEF Filled, MatchOK
<1>2. boards[p] = cells /\ \A q \in DOMAIN boards : q # p => boards[q] = match.filled[q]
  OBVIOUS
<1>3. DOMAIN boards = DOMAIN match.filled
  OBVIOUS
<1> HIDE DEF boards, cells
<1>4. \A q \in DOMAIN match.filled : ~(Cells \subseteq match.filled[q])
  BY DEF RaceOpen
<1>5. Finisher(match) = 0
  BY <1>4 DEF Finisher
<1>6. CASE Cells \subseteq cells
  <2>1. {q \in DOMAIN next.filled : Cells \subseteq next.filled[q]} = {p}
    BY <1>1, <1>2, <1>3, <1>4, <1>6
  <2>2. Finisher(next) = p
    BY <2>1 DEF Finisher
  <2> QED BY <1>1, <1>2, <1>5, <1>6, <2>2 DEF RaceOpen, boards
<1>7. CASE ~(Cells \subseteq cells)
  <2>1. \A q \in DOMAIN next.filled : ~(Cells \subseteq next.filled[q])
    BY <1>1, <1>2, <1>3, <1>4, <1>7
  <2>2. Finisher(next) = 0
    BY <2>1 DEF Finisher
  <2> QED BY <1>1, <1>2, <1>5, <1>7, <2>1, <2>2 DEF RaceOpen, boards
<1> QED
  BY <1>6, <1>7

\* A round that starts has empty boards and no finisher.
LEMMA RoundBegun ==
    ASSUME NEW match, NEW roster, match.filled = [q \in roster |-> {}]
    PROVE  RaceOpen(match) /\ Finisher(match) = 0
  BY SizesAssumption DEF RaceOpen, Finisher

LEMMA KeepsRounds ==
    ASSUME LobbyInv, RoundsInv, [Next]_vars
    PROVE  RoundsInv'
<1>1. CASE UNCHANGED vars
  BY <1>1 DEF RoundsInv, vars
<1>2. CASE Next
  <2> SUFFICES ASSUME NEW r \in DOMAIN mRooms' PROVE RaceOpen(mRooms'[r].match)
    BY DEF RoundsInv
  <2>1. LobbyStep
    BY <1>2, NextIsLobbyStep
  <2>2. RaceOpen(FreshMatch)
    BY DEF RaceOpen, FreshMatch
  <2>3. CASE r \in DOMAIN mRooms /\ mRooms'[r].match = mRooms[r].match
    BY <2>3 DEF RoundsInv
  <2>4. ASSUME r \in DOMAIN mRooms, NEW p \in PlayerIds, MatchMoved(p, r, mRooms'[r].match)
        PROVE  RaceOpen(mRooms'[r].match)
    <3> DEFINE match == mRooms[r].match
               next == mRooms'[r].match
    <3>1. MatchOK(match) /\ RaceOpen(match)
      BY <2>4, RoomFacts DEF RoundsInv
    <3>2. ASSUME NEW roster, next.filled = [q \in roster |-> {}] PROVE RaceOpen(next)
      BY <3>2, RoundBegun
    <3>3. ASSUME match.phase = "running", p \in DOMAIN match.filled,
                 NEW c \in Cells \ match.filled[p], next = Filled(match, p, c)
          PROVE  RaceOpen(next)
      <4> HIDE DEF match, next
      <4> QED BY <3>1, <3>3, BoardFilled
    <3> QED BY <2>4, <3>1, <3>2, <3>3 DEF MatchMoved
  <2> QED BY <2>1, <2>2, <2>3, <2>4, RoomMoves
<1> QED
  BY <1>1, <1>2

LEMMA RoundsInvariant == Spec => [](LobbyInv /\ RoundsInv)
<1>1. Init => RoundsInv
  BY DEF Init, RoundsInv
<1> QED
  BY <1>1, InitLobbyInv, NextLobbyInv, KeepsRounds, PTL DEF Spec

\* What a step does to the match of a room is a step of its rounds.
LEMMA RoundStep ==
    ASSUME LobbyInv, RoundsInv, NEW r \in DOMAIN mRooms, r \in DOMAIN mRooms',
           NEW p \in PlayerIds, MatchMoved(p, r, mRooms'[r].match)
    PROVE  [Rounds(r)!Next]_(Rounds(r)!vars)
<1> DEFINE match == mRooms[r].match
           next == mRooms'[r].match
<1>1. MatchOK(match) /\ RaceOpen(match) /\ PlayerIds \subseteq AllIds
  BY RoomFacts, IdsBounded DEF RoundsInv
<1>2. CASE next = match
  BY <1>2 DEF Rounds!vars
<1>3. ASSUME NEW roster \in SUBSET PlayerIds,
             next.phase = "running", next.filled = [q \in roster |-> {}]
      PROVE  Rounds(r)!Next
  <2>1. Finisher(next) = 0
    BY <1>3, RoundBegun
  <2>2. Rounds(r)!Start(Cells, roster)
    BY <1>3, <2>1 DEF Rounds!Start
  <2> QED BY <1>1, <2>2 DEF Rounds!Next
<1>4. ASSUME match.phase = "running", p \in DOMAIN match.filled,
             NEW c \in Cells \ match.filled[p], next = Filled(match, p, c)
      PROVE  Rounds(r)!Next
  <2>1. /\ next.filled = [match.filled EXCEPT ![p] = @ \cup {c}]
        /\ \/ /\ Cells \subseteq next.filled[p] /\ next.phase = "finished"
              /\ Finisher(next) = p
           \/ /\ ~(Cells \subseteq next.filled[p]) /\ next.phase = "running"
              /\ Finisher(next) = 0
        /\ Finisher(match) = 0
    BY <1>1, <1>4, BoardFilled
  <2>2. Rounds(r)!Fill(p, c)
    BY <1>4, <2>1 DEF Rounds!Fill
  <2> QED BY <1>1, <1>4, <2>2 DEF Rounds!Next
<1> QED
  BY <1>2, <1>3, <1>4 DEF MatchMoved

\* As long as a room is open, whatever its players do, its match is the race that
\* MatchRound describes, and with it what LiveMatch is proved to keep: rounds begin on
\* empty boards, and end with the first full one.
THEOREM RoomsKeepMatchRound == Spec => RoomsPlayRounds
<1> DEFINE Played ==
        /\ \A r \in DOMAIN mRooms' \ DOMAIN mRooms : Rounds(r)!Init'
        /\ \A r \in DOMAIN mRooms \cap DOMAIN mRooms' : [Rounds(r)!Next]_(Rounds(r)!vars)
<1>1. ASSUME LobbyInv, RoundsInv, [Next]_vars PROVE Played \/ UNCHANGED vars
  <2>1. CASE LobbyStep
    <3>1. ASSUME NEW r \in DOMAIN mRooms' \ DOMAIN mRooms PROVE Rounds(r)!Init'
      <4>1. mRooms'[r].match = FreshMatch
        BY <2>1, <3>1, <1>1, RoomMoves
      <4> QED BY <4>1 DEF Rounds!Init, FreshMatch, Finisher
    <3>2. ASSUME NEW r \in DOMAIN mRooms \cap DOMAIN mRooms'
          PROVE  [Rounds(r)!Next]_(Rounds(r)!vars)
      <4>1. CASE mRooms'[r].match = mRooms[r].match
        BY <4>1 DEF Rounds!vars
      <4>2. ASSUME NEW p \in PlayerIds, MatchMoved(p, r, mRooms'[r].match)
            PROVE  [Rounds(r)!Next]_(Rounds(r)!vars)
        BY <4>2, <1>1, <3>2, RoundStep
      <4> QED BY <1>1, <2>1, <3>2, <4>1, <4>2, RoomMoves
    <3> QED BY <3>1, <3>2
  <2> QED BY <1>1, <2>1, NextIsLobbyStep
<1> HIDE DEF Played
<1>2. LobbyInv /\ RoundsInv /\ [Next]_vars => [Played]_vars
  BY <1>1
<1>3. Spec => [][Played]_vars
  BY <1>2, RoundsInvariant, PTL DEF Spec
<1> QED BY <1>3 DEF Played, RoomsPlayRounds

=============================================================================
