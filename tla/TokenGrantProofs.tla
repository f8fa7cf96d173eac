-------------------------- MODULE TokenGrantProofs --------------------------
(* Proofs of the safety properties of TokenGrant, for every instance. *)
EXTENDS TokenGrant, TLAPS

\* What each program counter says of the fields a request carries.
RequestShape ==
  \A r \in Requests :
    /\ req[r].pc \in {"replay", "deny"} => req[r].code \in Codes
    /\ req[r].pc = "rotate" => req[r].tok \in Tokens
    /\ req[r].pc \in {"rotate", "reuse", "revoke"} => req[r].fam \in Tokens
    /\ req[r].pc = "mint" => (req[r].tok = NoToken <=> req[r].fam = NoToken)

TypeInv == TypeOK /\ RequestShape

-----------------------------------------------------------------------------
(* The requests the handlers build.                                        *)

LEMMA SomeClientType == SomeClient \in Clients
BY ClientsAssumption, Zenon DEF SomeClient

LEMMA IdleType == Idle \in Request /\ Idle.pc = "idle" /\ Idle.fam = NoToken
BY SomeClientType, Zenon DEF Idle, Request, NoExpiry

LEMMA MintCodeType ==
  ASSUME TypeOK, NEW c \in Codes, NEW k \in Keys \cup {NoKey}
  PROVE  /\ MintCode(c, k) \in Request
         /\ MintCode(c, k).pc = "mint"
         /\ MintCode(c, k).code = c
         /\ MintCode(c, k).tok = NoToken
         /\ MintCode(c, k).fam = NoToken
<1>1. codes[c].scope \in SUBSET Scopes /\ codes[c].gexp \in Nat /\ codes[c].client \in Clients
  BY Zenon DEF TypeOK, CodeRow
<1> QED BY <1>1, SomeClientType, Zenon DEF MintCode, Request, Idle

LEMMA RotateTokenType ==
  ASSUME TypeOK, NEW t \in Tokens, NEW sc \in SUBSET Scopes, NEW k \in Keys \cup {NoKey}
  PROVE  /\ RotateToken(t, sc, k) \in Request
         /\ RotateToken(t, sc, k).pc = "rotate"
         /\ RotateToken(t, sc, k).code = NoCode
         /\ RotateToken(t, sc, k).tok = t
         /\ RotateToken(t, sc, k).fam = refresh[t].fam
         /\ RotateToken(t, sc, k).client = refresh[t].client
         /\ RotateToken(t, sc, k).scope = sc
         /\ RotateToken(t, sc, k).jkt = k
         /\ RotateToken(t, sc, k).gexp = refresh[t].gexp
<1>1. refresh[t].fam \in Tokens /\ refresh[t].gexp \in Nat /\ refresh[t].client \in Clients
  BY Zenon DEF TypeOK, RefreshRow
<1> QED BY <1>1, SomeClientType, Zenon DEF RotateToken, Request, Idle

LEMMA OnFamilyType ==
  ASSUME TypeOK, NEW t \in Tokens, NEW pc \in {"reuse", "revoke"}
  PROVE  /\ OnFamily(pc, t) \in Request
         /\ OnFamily(pc, t).pc = pc
         /\ OnFamily(pc, t).fam = refresh[t].fam
         /\ OnFamily(pc, t).tok = NoToken
         /\ OnFamily(pc, t).code = NoCode
<1>1. refresh[t].fam \in Tokens
  BY Zenon DEF TypeOK, RefreshRow
<1> QED BY <1>1, SomeClientType, Zenon DEF OnFamily, Request, Idle, NoExpiry

\* Revoking a row, and the rows of a set of families, keeps the rows' shape.
LEMMA RevokedRowType ==
  ASSUME NEW row \in RefreshRow
  PROVE  [row EXCEPT !.state = "revoked"] \in RefreshRow
BY Zenon DEF RefreshRow

LEMMA RevokeLiveType ==
  ASSUME TypeOK, NEW fams
  PROVE  RevokeLive(fams) \in [Tokens -> RefreshRow]
BY RevokedRowType, Zenon DEF RevokeLive, TypeOK

\* A request that moves on keeps everything but its program counter.
LEMMA MovesOn ==
  ASSUME NEW q \in Request, NEW pc \in {"mint", "reuse"}
  PROVE  /\ [q EXCEPT !.pc = pc] \in Request
         /\ [q EXCEPT !.pc = pc].pc = pc
         /\ [q EXCEPT !.pc = pc].tok = q.tok
         /\ [q EXCEPT !.pc = pc].fam = q.fam
BY Zenon DEF Request

-----------------------------------------------------------------------------
(* Types.                                                                  *)

LEMMA TypeInit == Init => TypeInv
BY SomeClientType, IdleType
DEF Init, TypeInv, RequestShape, TypeOK, NoCodeRow, CodeRow, NoRefreshRow, RefreshRow, NoExpiry

LEMMA TypeStep == TypeInv /\ [Next]_vars => TypeInv'
<1> SUFFICES ASSUME TypeInv, [Next]_vars PROVE TypeInv'
  BY Zenon
<1> USE IdleType DEF TypeInv
<1>1. CASE Tick
  BY <1>1 DEF Tick, TypeOK, RequestShape, history
<1>2. ASSUME NEW c \in Codes, NEW cl \in Clients, NEW sc \in SUBSET Scopes,
             NEW g \in GrantExpiries \cup {NoExpiry}, Authorize(c, cl, sc, g)
      PROVE  TypeInv'
  <2>1. g \in Nat /\ now + CodeTTL \in Nat
    BY TimesAssumption DEF NoExpiry, TypeOK
  <2>2. codes' \in [Codes -> CodeRow]
    BY <1>2, <2>1, Zenon DEF Authorize, TypeOK, CodeRow
  <2> QED BY <1>2, <2>2, Zenon DEF Authorize, TypeOK, RequestShape, history
<1>3. ASSUME NEW r \in Requests, NEW c \in Codes, NEW cl \in Clients,
             NEW k \in Keys \cup {NoKey}, ExchangeConsume(r, c, cl, k)
      PROVE  TypeInv'
  <2>1. codes' \in [Codes -> CodeRow]
    BY <1>3, Zenon DEF ExchangeConsume, TypeOK, CodeRow
  <2>2. req' \in [Requests -> Request] /\ RequestShape'
    BY <1>3, MintCodeType DEF ExchangeConsume, TypeOK, RequestShape
  <2> QED BY <1>3, <2>1, <2>2, Zenon DEF ExchangeConsume, TypeOK, history
<1>4. ASSUME NEW r \in Requests, NEW c \in Codes, ExchangeReplay(r, c)
      PROVE  TypeInv'
  BY <1>4, ZenonT(60) DEF ExchangeReplay, TypeOK, Request, Idle, RequestShape, history
<1>5. ASSUME NEW r \in Requests, HandleCodeReplay(r)
      PROVE  TypeInv'
  <2>1. refresh' \in [Tokens -> RefreshRow]
    BY <1>5, RevokeLiveType, Zenon DEF HandleCodeReplay
  <2>2. req' \in [Requests -> Request] /\ RequestShape'
    <3> DEFINE hit == {t \in Tokens : Live(t) /\ refresh[t].fam \in FamiliesOfCode(req[r].code)}
               q == [Idle EXCEPT !.pc = "deny", !.code = req[r].code, !.jtis = hit]
    <3>1. req[r].code \in Codes
      BY <1>5, Zenon DEF HandleCodeReplay, RequestShape
    <3>2. hit \in SUBSET Tokens
      BY Zenon
    <3>3. req' = [req EXCEPT ![r] = q] \/ req' = [req EXCEPT ![r] = Idle]
      BY <1>5, Zenon DEF HandleCodeReplay
    <3> HIDE DEF hit
    <3>4. q \in Request /\ q.pc = "deny" /\ q.code = req[r].code
      BY <3>1, <3>2, Zenon DEF Request, Idle
    <3> HIDE DEF q
    <3>5. req' \in [Requests -> Request]
      BY <3>3, <3>4, Zenon DEF TypeOK
    <3>6. \A s \in Requests \ {r} : req'[s] = req[s]
      BY <3>3, Zenon DEF TypeOK
    <3>7. req'[r] = q \/ req'[r] = Idle
      BY <3>3, Zenon DEF TypeOK
    <3> QED BY <3>1, <3>4, <3>5, <3>6, <3>7, Zenon DEF RequestShape
  <2>3. FamiliesOfCode(req[r].code) \subseteq Tokens
    BY DEF TypeOK, RefreshRow, FamiliesOfCode
  <2> QED BY <1>5, <2>1, <2>2, <2>3, Zenon DEF HandleCodeReplay, TypeOK, RequestShape
<1>6. ASSUME NEW r \in Requests, NEW t \in Tokens, DenyReplayedJTI(r, t)
      PROVE  TypeInv'
  <2>1. req' \in [Requests -> Request] /\ RequestShape'
    BY <1>6 DEF DenyReplayedJTI, TypeOK, Request, RequestShape
  <2> QED BY <1>6, <2>1, TimesAssumption DEF DenyReplayedJTI, DenyAccessToken, TypeOK, history
<1>7. ASSUME NEW r \in Requests, NEW t \in Tokens, NEW cl \in Clients, NEW sc \in SUBSET Scopes,
             NEW k \in Keys \cup {NoKey}, RefreshRead(r, t, cl, sc, k)
      PROVE  TypeInv'
  <2>1. refresh[t].fam \in Tokens
    BY Zenon DEF TypeOK, RefreshRow
  <2>2. req' \in [Requests -> Request] /\ RequestShape'
    BY <1>7, <2>1, RotateTokenType, OnFamilyType DEF RefreshRead, TypeOK, RequestShape
  <2> QED BY <1>7, <2>2, Zenon DEF RefreshRead, TypeOK, history
<1>8. ASSUME NEW r \in Requests, Rotate(r)
      PROVE  TypeInv'
  <2>1. refresh' \in [Tokens -> RefreshRow]
    BY <1>8, RevokedRowType DEF Rotate, TypeOK
  <2>2. req' \in [Requests -> Request] /\ RequestShape'
    <3>1. PICK pc \in {"mint", "reuse"} : req' = [req EXCEPT ![r].pc = pc]
      BY <1>8, Zenon DEF Rotate
    <3>2. req[r] \in Request /\ req[r].tok \in Tokens /\ req[r].fam \in Tokens
      BY <1>8, Zenon DEF Rotate, TypeOK, RequestShape
    <3>3. req' \in [Requests -> Request]
      BY <3>1, <3>2, MovesOn, Zenon DEF TypeOK
    <3>4. req'[r].pc = pc /\ req'[r].tok \in Tokens /\ req'[r].fam \in Tokens
      BY <3>1, <3>2, MovesOn DEF TypeOK
    <3>5. \A x \in Requests \ {r} : req'[x] = req[x]
      BY <3>1, Zenon DEF TypeOK
    <3> QED BY <3>3, <3>4, <3>5, SentinelsAssumption, Zenon DEF RequestShape
  <2> QED BY <1>8, <2>1, <2>2, Zenon DEF Rotate, TypeOK, history
<1>9. ASSUME NEW r \in Requests, RevokeFamily(r)
      PROVE  TypeInv'
  <2>1. refresh' \in [Tokens -> RefreshRow]
    BY <1>9, RevokeLiveType, Zenon DEF RevokeFamily
  <2> QED BY <1>9, <2>1, Zenon DEF RevokeFamily, TypeOK, RequestShape, history
<1>10. ASSUME NEW r \in Requests, NEW t \in Tokens, Mint(r, t)
       PROVE  TypeInv'
  <2>1. refresh' \in [Tokens -> RefreshRow]
    BY <1>10, TimesAssumption DEF Mint, TypeOK, RefreshRow, Request, CapExpiry
  <2> QED BY <1>10, <2>1, Zenon DEF Mint, TypeOK, RequestShape, history
<1>11. ASSUME NEW r \in Requests, NEW t \in Tokens, NEW cl \in Clients, RevokeToken(r, t, cl)
       PROVE  TypeInv'
  <2>1. refresh[t].fam \in Tokens
    BY Zenon DEF TypeOK, RefreshRow
  <2> QED BY <1>11, <2>1, OnFamilyType, Zenon DEF RevokeToken, TypeOK, RequestShape, history
<1>12. ASSUME NEW t \in Tokens, NEW cl \in Clients, RevokeAccessToken(t, cl)
       PROVE  TypeInv'
  BY <1>12, Zenon DEF RevokeAccessToken, DenyAccessToken, TypeOK, RefreshRow, RequestShape, history
<1>13. ASSUME NEW r \in Requests, Abort(r)
       PROVE  TypeInv'
  BY <1>13, Zenon DEF Abort, TypeOK, RequestShape, history
<1>14. CASE UNCHANGED vars
  BY <1>14, Zenon DEF vars, history, TypeOK, RequestShape
<1> QED
  BY <1>1, <1>2, <1>3, <1>4, <1>5, <1>6, <1>7, <1>8, <1>9, <1>10, <1>11, <1>12, <1>13, <1>14, Zenon
  DEF Next

\* Every step keeps every variable of its type.
THEOREM TypeCorrect == Spec => []TypeOK
<1>1. Spec => []TypeInv
  BY TypeInit, TypeStep, PTL DEF Spec
<1> QED BY <1>1, PTL DEF TypeInv

-----------------------------------------------------------------------------
(* The steps that matter to families: all the others leave the rows and the *)
(* mints in flight alone.                                                   *)

\* A request that has just read a refresh token it may rotate.
StartsRotation(r) ==
  \E t \in Tokens, sc \in SUBSET Scopes, k \in Keys \cup {NoKey} :
    /\ req'[r] = RotateToken(t, sc, k)
    /\ Live(t)
    /\ sc \subseteq refresh[t].scope
    /\ refresh[t].jkt # NoKey => k = refresh[t].jkt

Quiet ==
  /\ refresh' = refresh
  /\ dead' = dead
  /\ spent' = spent
  /\ \A c \in Codes : codes[c].state = "gone" => codes'[c].state = "gone"
  /\ \A r \in Requests : Minting(r)' => Minting(r) /\ req'[r] = req[r]
  /\ \A r \in Requests : req'[r].pc = "rotate" => req'[r] = req[r] \/ StartsRotation(r)
  /\ \A r \in Requests : req'[r].pc = "replay" =>
       req'[r] = req[r] \/ codes[req'[r].code].state = "gone"

Exchanged(r, c, k) ==
  /\ codes[c].state = "live"
  /\ codes' = [codes EXCEPT ![c].state = "gone"]
  /\ req' = [req EXCEPT ![r] = MintCode(c, k)]
  /\ UNCHANGED <<now, refresh, denied, history>>

Rotated(r) ==
  /\ req[r].pc = "rotate"
  /\ Live(req[r].tok)
  /\ refresh' = [refresh EXCEPT ![req[r].tok].state = "revoked"]
  /\ req' = [req EXCEPT ![r].pc = "mint"]
  /\ UNCHANGED <<now, codes, denied, history>>

LEMMA StepKinds ==
  ASSUME TypeInv, [Next]_vars
  PROVE  \/ Quiet
         \/ \E r \in Requests, c \in Codes, k \in Keys \cup {NoKey} : Exchanged(r, c, k)
         \/ \E r \in Requests : Rotated(r)
         \/ \E r \in Requests : HandleCodeReplay(r)
         \/ \E r \in Requests : RevokeFamily(r)
         \/ \E r \in Requests, t \in Tokens : Mint(r, t)
<1> USE IdleType DEF TypeInv, TypeOK
<1>1. CASE Tick
  BY <1>1, Zenon DEF Tick, Quiet, history, Minting
<1>2. ASSUME NEW c \in Codes, NEW cl \in Clients, NEW sc \in SUBSET Scopes,
             NEW g \in GrantExpiries \cup {NoExpiry}, Authorize(c, cl, sc, g)
      PROVE  Quiet
  BY <1>2, Zenon DEF Authorize, Quiet, history, Minting
<1>3. ASSUME NEW r \in Requests, NEW c \in Codes, NEW cl \in Clients,
             NEW k \in Keys \cup {NoKey}, ExchangeConsume(r, c, cl, k)
      PROVE  Quiet \/ Exchanged(r, c, k)
  BY <1>3, Zenon DEF ExchangeConsume, Quiet, Exchanged, history, Minting
<1>4. ASSUME NEW r \in Requests, NEW c \in Codes, ExchangeReplay(r, c)
      PROVE  Quiet
  BY <1>4, Zenon DEF ExchangeReplay, Quiet, history, Minting, Idle
<1>6. ASSUME NEW r \in Requests, NEW t \in Tokens, DenyReplayedJTI(r, t)
      PROVE  Quiet
  BY <1>6, Zenon DEF DenyReplayedJTI, Quiet, history, Minting, Request
<1>7. ASSUME NEW r \in Requests, NEW t \in Tokens, NEW cl \in Clients, NEW sc \in SUBSET Scopes,
             NEW k \in Keys \cup {NoKey}, RefreshRead(r, t, cl, sc, k)
      PROVE  Quiet
  BY <1>7, RotateTokenType, OnFamilyType DEF RefreshRead, Quiet, StartsRotation, history, Minting
<1>8. ASSUME NEW r \in Requests, Rotate(r)
      PROVE  Quiet \/ Rotated(r)
  BY <1>8 DEF Rotate, Quiet, Rotated, history, Minting, Request
<1>11. ASSUME NEW r \in Requests, NEW t \in Tokens, NEW cl \in Clients, RevokeToken(r, t, cl)
       PROVE  Quiet
  BY <1>11, OnFamilyType, Zenon DEF RevokeToken, Quiet, history, Minting
<1>12. ASSUME NEW t \in Tokens, NEW cl \in Clients, RevokeAccessToken(t, cl)
       PROVE  Quiet
  BY <1>12, Zenon DEF RevokeAccessToken, Quiet, history, Minting
<1>13. ASSUME NEW r \in Requests, Abort(r)
       PROVE  Quiet
  BY <1>13, Zenon DEF Abort, Quiet, history, Minting
<1>14. CASE UNCHANGED vars
  BY <1>14, Zenon DEF vars, Quiet, history, Minting
<1> QED
  BY <1>1, <1>2, <1>3, <1>4, <1>6, <1>7, <1>8, <1>11, <1>12, <1>13, <1>14, Zenon DEF Next

\* What a mint changes, field by field.
LEMMA MintEffect ==
  ASSUME TypeOK, NEW r \in Requests, NEW t \in Tokens, Mint(r, t)
  PROVE  /\ Minting(r)
         /\ ~Issued(t)
         /\ \A u \in Tokens \ {t} : refresh'[u] = refresh[u]
         /\ refresh'[t].state = "live"
         /\ refresh'[t].fam = IF req[r].fam = NoToken THEN t ELSE req[r].fam
         /\ refresh'[t].prev = req[r].tok
         /\ refresh'[t].code = req[r].code
         /\ refresh'[t].client = req[r].client
         /\ refresh'[t].scope = req[r].scope
         /\ refresh'[t].jkt = req[r].jkt
         /\ refresh'[t].gexp = req[r].gexp
         /\ refresh'[t].exp = CapExpiry(RefreshTTL, req[r].gexp)
         /\ refresh'[t].aexp = CapExpiry(AccessTTL, req[r].gexp)
         /\ req'[r] = Idle
         /\ \A s \in Requests \ {r} : req'[s] = req[s]
         /\ UNCHANGED <<now, codes, denied, dead, spent>>
BY Zenon DEF Mint, TypeOK, history

\* The rows after the live tokens of the families are revoked.
RowsRevoked(fams) ==
  \A t \in Tokens :
    /\ refresh'[t].state = IF Live(t) /\ refresh[t].fam \in fams
                           THEN "revoked" ELSE refresh[t].state
    /\ refresh'[t].fam = refresh[t].fam
    /\ refresh'[t].prev = refresh[t].prev
    /\ refresh'[t].code = refresh[t].code
    /\ refresh'[t].client = refresh[t].client
    /\ refresh'[t].scope = refresh[t].scope
    /\ refresh'[t].jkt = refresh[t].jkt
    /\ refresh'[t].gexp = refresh[t].gexp
    /\ refresh'[t].exp = refresh[t].exp
    /\ refresh'[t].aexp = refresh[t].aexp

\* What the two revocations, of a code's families and of one family, have in
\* common.
LEMMA KillEffect ==
  ASSUME TypeInv, NEW r \in Requests, HandleCodeReplay(r) \/ RevokeFamily(r)
  PROVE  \E fams \in SUBSET Tokens :
           /\ fams = FamiliesOfCode(req[r].code) \/ fams = {req[r].fam}
           /\ HandleCodeReplay(r) => fams = FamiliesOfCode(req[r].code)
           /\ RevokeFamily(r) => spent' = spent
           /\ RowsRevoked(fams)
           /\ dead' = dead \cup {f \in fams : NoMintOf(f)}
           /\ req'[r].pc \in {"idle", "deny"}
           /\ req'[r].fam = NoToken
           /\ req'[r].tok = NoToken
           /\ \A s \in Requests \ {r} : req'[s] = req[s]
           /\ UNCHANGED <<now, codes, denied>>
<1> USE DEF TypeInv
<1>1. CASE HandleCodeReplay(r)
  <2>1. PICK fams \in SUBSET Tokens : fams = FamiliesOfCode(req[r].code)
    BY ZenonT(60) DEF FamiliesOfCode, TypeOK, RefreshRow
  <2>2. refresh' = RevokeLive(fams)
    BY <1>1, <2>1, Zenon DEF HandleCodeReplay
  <2>3. RowsRevoked(fams)
    BY <2>2 DEF RowsRevoked, RevokeLive, TypeOK, RefreshRow
  <2>4. dead' = dead \cup {f \in fams : NoMintOf(f)}
    BY <1>1, <2>1, Zenon DEF HandleCodeReplay
  <2>5. /\ req'[r].pc \in {"idle", "deny"}
        /\ req'[r].fam = NoToken
        /\ req'[r].tok = NoToken
        /\ \A s \in Requests \ {r} : req'[s] = req[s]
        /\ UNCHANGED <<now, codes, denied>>
    BY <1>1, Zenon DEF HandleCodeReplay, Idle, TypeOK
  <2>6. ~RevokeFamily(r)
    BY <1>1, Zenon DEF HandleCodeReplay, RevokeFamily
  <2> QED BY <2>1, <2>3, <2>4, <2>5, <2>6, Zenon
<1>2. CASE RevokeFamily(r) /\ ~HandleCodeReplay(r)
  <2>1. PICK fams \in SUBSET Tokens : fams = {req[r].fam}
    BY <1>2, Zenon DEF RequestShape, RevokeFamily
  <2>2. refresh' = RevokeLive(fams)
    BY <1>2, <2>1, Zenon DEF RevokeFamily
  <2>3. RowsRevoked(fams)
    BY <2>2 DEF RowsRevoked, RevokeLive, TypeOK, RefreshRow
  <2>4. dead' = dead \cup {f \in fams : NoMintOf(f)}
    BY <1>2, <2>1, Zenon DEF RevokeFamily
  <2>5. /\ req'[r].pc \in {"idle", "deny"}
        /\ req'[r].fam = NoToken
        /\ req'[r].tok = NoToken
        /\ \A s \in Requests \ {r} : req'[s] = req[s]
        /\ UNCHANGED <<now, codes, denied, spent>>
    BY <1>2, Zenon DEF RevokeFamily, Idle, TypeOK
  <2> QED BY <1>2, <2>1, <2>3, <2>4, <2>5, Zenon
<1> QED BY <1>1, <1>2, Zenon

\* What winning the conditional update changes.
LEMMA RotatedEffect ==
  ASSUME TypeInv, NEW r \in Requests, Rotated(r)
  PROVE  /\ req[r].pc = "rotate"
         /\ req[r].tok \in Tokens
         /\ req[r].fam \in Tokens
         /\ Live(req[r].tok)
         /\ \A t \in Tokens :
              /\ refresh'[t].state = IF t = req[r].tok THEN "revoked" ELSE refresh[t].state
              /\ refresh'[t].fam = refresh[t].fam
              /\ refresh'[t].prev = refresh[t].prev
              /\ refresh'[t].code = refresh[t].code
              /\ refresh'[t].client = refresh[t].client
              /\ refresh'[t].scope = refresh[t].scope
              /\ refresh'[t].jkt = refresh[t].jkt
              /\ refresh'[t].gexp = refresh[t].gexp
              /\ refresh'[t].exp = refresh[t].exp
              /\ refresh'[t].aexp = refresh[t].aexp
         /\ req'[r] = [req[r] EXCEPT !.pc = "mint"]
         /\ req'[r].pc = "mint"
         /\ req'[r].tok = req[r].tok
         /\ req'[r].fam = req[r].fam
         /\ req'[r].code = req[r].code
         /\ req'[r].client = req[r].client
         /\ req'[r].scope = req[r].scope
         /\ req'[r].jkt = req[r].jkt
         /\ req'[r].gexp = req[r].gexp
         /\ \A s \in Requests \ {r} : req'[s] = req[s]
         /\ UNCHANGED <<now, codes, denied, dead, spent>>
BY DEF Rotated, TypeInv, TypeOK, RequestShape, RefreshRow, Request, history

LEMMA ExchangedEffect ==
  ASSUME TypeInv, NEW r \in Requests, NEW c \in Codes, NEW k \in Keys \cup {NoKey},
         Exchanged(r, c, k)
  PROVE  /\ req'[r] = MintCode(c, k)
         /\ \A s \in Requests \ {r} : req'[s] = req[s]
         /\ codes[c].state = "live"
         /\ codes'[c].state = "gone"
         /\ \A d \in Codes \ {c} : codes'[d] = codes[d]
         /\ UNCHANGED <<now, refresh, denied, dead, spent>>
BY Zenon DEF Exchanged, TypeInv, TypeOK, CodeRow, history

\* The types of the fields that link rows and requests.
LEMMA Fields ==
  ASSUME TypeInv
  PROVE  /\ \A t \in Tokens : /\ refresh[t].fam \in Tokens
                              /\ refresh[t].prev \in Tokens \cup {NoToken}
                              /\ refresh[t].code \in Codes \cup {NoCode}
         /\ \A r \in Requests : /\ req[r].fam \in Tokens \cup {NoToken}
                                /\ req[r].tok \in Tokens \cup {NoToken}
                                /\ req[r].code \in Codes \cup {NoCode}
BY Zenon DEF TypeInv, TypeOK, RefreshRow, Request

-----------------------------------------------------------------------------
(* Rows and requests refer to issued tokens.                               *)

Linked ==
  /\ \A t \in Tokens : Issued(t) => Issued(refresh[t].fam)
  /\ \A r \in Requests : req[r].fam # NoToken => Issued(req[r].fam)
  /\ \A r \in Requests : req[r].pc \in {"rotate", "mint"} /\ req[r].tok # NoToken =>
       /\ Issued(req[r].tok)
       /\ refresh[req[r].tok].fam = req[r].fam
       /\ Minting(r) => ~Live(req[r].tok)

LEMMA LinkedInit == Init => Linked
BY IdleType DEF Init, Linked, Issued, NoRefreshRow

LEMMA LinkedRotated ==
  ASSUME TypeInv, Linked, NEW r \in Requests, Rotated(r)
  PROVE  Linked'
<1> DEFINE old == req[r].tok
<1>1. old \in Tokens /\ req[r].fam \in Tokens /\ Issued(old) /\ refresh[old].fam = req[r].fam
  BY RotatedEffect, SentinelsAssumption, ZenonT(60) DEF Linked, Issued, Live
<1>2. \A t \in Tokens : Issued(t)' <=> Issued(t)
  BY <1>1, RotatedEffect, Zenon DEF Issued
<1>3. \A t \in Tokens : Live(t)' => Live(t) /\ t # old
  BY <1>1, RotatedEffect, Zenon DEF Live
<1>4. \A t \in Tokens : refresh'[t].fam = refresh[t].fam
  BY RotatedEffect, Zenon
<1>5. req'[r].tok = old /\ req'[r].fam = req[r].fam /\ \A s \in Requests \ {r} : req'[s] = req[s]
  BY RotatedEffect, Zenon
<1> HIDE DEF old
<1>6. \A t \in Tokens : Issued(t)' => Issued(refresh[t].fam)'
  BY <1>2, <1>4, Fields, Zenon DEF Linked, Issued
<1>7. \A s \in Requests : req'[s].fam # NoToken => Issued(req[s].fam)'
  BY <1>2, <1>5, Fields, SMTT(30) DEF Linked, Issued
<1>8. ASSUME NEW s \in Requests, req'[s].pc \in {"rotate", "mint"}, req'[s].tok # NoToken
      PROVE  /\ Issued(req[s].tok)'
             /\ refresh'[req'[s].tok].fam = req'[s].fam
             /\ Minting(s)' => ~Live(req[s].tok)'
  <2>1. CASE s = r
    BY <2>1, <1>1, <1>2, <1>3, <1>4, <1>5, Zenon DEF Issued, Live
  <2>2. CASE s # r
    BY <2>2, <1>2, <1>3, <1>4, <1>5, <1>8, Fields DEF Linked, Issued, Live, Minting
  <2> QED BY <2>1, <2>2, Zenon
<1> QED BY <1>6, <1>7, <1>8, Zenon DEF Linked

LEMMA LinkedMint ==
  ASSUME TypeInv, Linked, NEW r \in Requests, NEW t \in Tokens, Mint(r, t)
  PROVE  Linked'
<1>1. /\ \A u \in Tokens \ {t} : refresh'[u] = refresh[u]
      /\ refresh'[t].state = "live"
      /\ refresh'[t].fam = IF req[r].fam = NoToken THEN t ELSE req[r].fam
      /\ ~Issued(t)
      /\ req'[r] = Idle
      /\ \A s \in Requests \ {r} : req'[s] = req[s]
  BY MintEffect, Zenon DEF TypeInv
<1>2. \A u \in Tokens : Issued(u) => Issued(u)' /\ refresh'[u] = refresh[u] /\ u # t
  BY <1>1, Zenon DEF Issued
<1>3. req'[r].fam = NoToken /\ req'[r].pc = "idle"
  BY <1>1, IdleType, Zenon
<1>4. ASSUME NEW s \in Requests, req'[s].fam # NoToken
      PROVE  Issued(req[s].fam)'
  <2>1. req'[s] = req[s]
    BY <1>1, <1>3, <1>4, Zenon
  <2>2. req[s].fam \in Tokens /\ Issued(req[s].fam)
    BY <1>4, <2>1, Fields, Zenon DEF Linked
  <2> QED BY <1>2, <2>1, <2>2, Zenon
<1>5. \A u \in Tokens : Issued(u)' => Issued(refresh[u].fam)'
  <2>1. ASSUME NEW u \in Tokens \ {t}, Issued(u)' PROVE Issued(refresh[u].fam)'
    BY <1>1, <1>2, <2>1, Fields DEF Linked, Issued
  <2>2. Issued(refresh[t].fam)'
    BY <1>1, <1>2, Fields, Zenon DEF Linked, Issued
  <2> QED BY <2>1, <2>2, Zenon
<1>6. ASSUME NEW s \in Requests, req'[s].pc \in {"rotate", "mint"}, req'[s].tok # NoToken
      PROVE  /\ Issued(req[s].tok)'
             /\ refresh'[req'[s].tok].fam = req'[s].fam
             /\ Minting(s)' => ~Live(req[s].tok)'
  BY <1>1, <1>2, <1>3, <1>6, Fields, SMTT(30) DEF Linked, Issued, Live, Minting
<1> QED BY <1>4, <1>5, <1>6, Zenon DEF Linked

\* A step that replaces one request and leaves the rows alone keeps the links
\* when the new request's are sound.
LEMMA LinkedRequest ==
  ASSUME Linked, req \in [Requests -> Request], NEW r \in Requests, NEW w,
         refresh' = refresh, req' = [req EXCEPT ![r] = w],
         w.fam # NoToken => Issued(w.fam),
         w.pc \in {"rotate", "mint"} /\ w.tok # NoToken =>
           Issued(w.tok) /\ refresh[w.tok].fam = w.fam /\ (w.pc = "mint" => ~Live(w.tok))
  PROVE  Linked'
<1>1. \A s \in Requests : req'[s] = IF s = r THEN w ELSE req[s]
  BY Zenon
<1>2. \A t : (Issued(t)' <=> Issued(t)) /\ (Live(t)' <=> Live(t))
  BY Zenon DEF Issued, Live
<1> QED BY <1>1, <1>2, Zenon DEF Linked, Minting

\* A revocation of families changes no link.
LEMMA LinkedKill ==
  ASSUME TypeInv, Linked, NEW r \in Requests, HandleCodeReplay(r) \/ RevokeFamily(r)
  PROVE  Linked'
<1>1. PICK fams \in SUBSET Tokens :
        /\ RowsRevoked(fams)
        /\ req'[r].fam = NoToken /\ req'[r].tok = NoToken
        /\ \A s \in Requests \ {r} : req'[s] = req[s]
  BY KillEffect, Zenon
<1>2. \A t \in Tokens : /\ Issued(t) <=> Issued(t)'
                        /\ refresh'[t].fam = refresh[t].fam
                        /\ Live(t)' => Live(t)
  BY <1>1, Zenon DEF RowsRevoked, Issued, Live
<1>3. /\ \A t \in Tokens : refresh[t].fam \in Tokens
      /\ \A s \in Requests : /\ req[s].fam # NoToken => req[s].fam \in Tokens
                             /\ req[s].tok # NoToken => req[s].tok \in Tokens
  BY Fields, Zenon
<1> HIDE DEF Issued, Live
<1>4. \A t \in Tokens : Issued(t)' => Issued(refresh[t].fam)'
  BY <1>2, <1>3, Zenon DEF Linked
<1>5. \A s \in Requests : req'[s].fam # NoToken => Issued(req[s].fam)'
  BY <1>1, <1>2, <1>3 DEF Linked
<1>6. ASSUME NEW s \in Requests, req'[s].pc \in {"rotate", "mint"}, req'[s].tok # NoToken
      PROVE  /\ Issued(req[s].tok)'
             /\ refresh'[req'[s].tok].fam = req'[s].fam
             /\ Minting(s)' => ~Live(req[s].tok)'
  <2>1. req'[s] = req[s] /\ (Minting(s)' => Minting(s))
    BY <1>1, <1>6, Zenon DEF Minting
  <2>2. PICK t \in Tokens : t = req[s].tok
    BY <1>3, <1>6, <2>1, Zenon
  <2>3. Issued(t) /\ refresh[t].fam = req[s].fam /\ (Minting(s) => ~Live(t))
    BY <1>6, <2>1, <2>2, Zenon DEF Linked
  <2>4. Issued(t)' /\ refresh'[t].fam = req[s].fam /\ (Live(t)' => Live(t))
    BY <1>2, <2>3, Zenon
  <2>5. (Issued(req[s].tok)' <=> Issued(t)') /\ (Live(req[s].tok)' <=> Live(t)')
    BY <2>1, <2>2, Zenon DEF Issued, Live
  <2> QED BY <2>1, <2>2, <2>3, <2>4, <2>5, Zenon
<1> QED BY <1>4, <1>5, <1>6, Zenon DEF Linked

LEMMA LinkedStep == TypeInv /\ Linked /\ [Next]_vars => Linked'
<1> SUFFICES ASSUME TypeInv, Linked, [Next]_vars PROVE Linked'
  BY Zenon
<1>0. TypeOK /\ req \in [Requests -> Request]
  BY Zenon DEF TypeInv, TypeOK
<1>1. ASSUME refresh' = refresh, req' = req PROVE Linked'
  BY <1>1, Zenon DEF Linked, Issued, Live, Minting
<1>2. ASSUME NEW r \in Requests, refresh' = refresh, req' = [req EXCEPT ![r] = Idle]
      PROVE  Linked'
  BY <1>0, <1>2, IdleType, LinkedRequest, Zenon
<1>3. ASSUME NEW r \in Requests, NEW c \in Codes, NEW cl \in Clients,
             NEW k \in Keys \cup {NoKey}, ExchangeConsume(r, c, cl, k)
      PROVE  Linked'
  <2>1. refresh' = refresh /\ (req' = req \/ req' = [req EXCEPT ![r] = MintCode(c, k)])
    BY <1>3, Zenon DEF ExchangeConsume
  <2>2. MintCode(c, k).fam = NoToken /\ MintCode(c, k).tok = NoToken
    BY <1>0, MintCodeType, Zenon
  <2> QED BY <1>0, <1>1, <2>1, <2>2, LinkedRequest, Zenon
<1>4. ASSUME NEW r \in Requests, NEW c \in Codes, ExchangeReplay(r, c)
      PROVE  Linked'
  <2> DEFINE w == [Idle EXCEPT !.pc = "replay", !.code = c]
  <2>1. refresh' = refresh /\ req' = [req EXCEPT ![r] = w]
    BY <1>4, Zenon DEF ExchangeReplay
  <2>2. w.fam = NoToken /\ w.pc = "replay"
    BY Zenon DEF Idle
  <2> HIDE DEF w
  <2> QED BY <1>0, <2>1, <2>2, LinkedRequest, Zenon
<1>5. ASSUME NEW r \in Requests, NEW t \in Tokens, DenyReplayedJTI(r, t)
      PROVE  Linked'
  <2> DEFINE w == [req[r] EXCEPT !.jtis = @ \ {t}]
  <2>1. /\ refresh' = refresh /\ req[r].pc = "deny"
        /\ req' = [req EXCEPT ![r] = Idle] \/ req' = [req EXCEPT ![r] = w]
    BY <1>5, Zenon DEF DenyReplayedJTI
  <2>2. w.fam = req[r].fam /\ w.pc = req[r].pc
    BY <1>0, Zenon DEF Request
  <2> HIDE DEF w
  <2>3. req[r].fam # NoToken => Issued(req[r].fam)
    BY Zenon DEF Linked
  <2> QED BY <1>0, <1>2, <2>1, <2>2, <2>3, LinkedRequest, Zenon
<1>6. ASSUME NEW r \in Requests, NEW t \in Tokens, NEW pc \in {"reuse", "revoke"}, Issued(t),
             refresh' = refresh, req' = [req EXCEPT ![r] = OnFamily(pc, t)]
      PROVE  Linked'
  <2>1. OnFamily(pc, t).pc = pc /\ OnFamily(pc, t).fam = refresh[t].fam
    BY <1>0, OnFamilyType, Zenon
  <2>2. Issued(refresh[t].fam)
    BY <1>6, Zenon DEF Linked
  <2> QED BY <1>0, <1>6, <2>1, <2>2, LinkedRequest, Zenon
<1>7. ASSUME NEW r \in Requests, NEW t \in Tokens, NEW cl \in Clients, NEW sc \in SUBSET Scopes,
             NEW k \in Keys \cup {NoKey}, RefreshRead(r, t, cl, sc, k)
      PROVE  Linked'
  <2> DEFINE w == RotateToken(t, sc, k)
  <2>1. /\ refresh' = refresh /\ Issued(t)
        /\ req' = [req EXCEPT ![r] = OnFamily("reuse", t)] \/ req' = [req EXCEPT ![r] = w]
    BY <1>7, Zenon DEF RefreshRead
  <2>2. w.pc = "rotate" /\ w.tok = t /\ w.fam = refresh[t].fam
    BY <1>0, RotateTokenType
  <2>3. Issued(refresh[t].fam)
    BY <2>1, Zenon DEF Linked
  <2> HIDE DEF w
  <2> QED BY <1>0, <1>6, <2>1, <2>2, <2>3, LinkedRequest, Zenon
<1>8. ASSUME NEW r \in Requests, Rotate(r)
      PROVE  Linked'
  <2> DEFINE w == [req[r] EXCEPT !.pc = "reuse"]
  <2>1. Rotated(r) \/ (refresh' = refresh /\ req' = [req EXCEPT ![r] = w])
    BY <1>8, Zenon DEF Rotate, Rotated
  <2>2. w.pc = "reuse" /\ w.fam = req[r].fam
    BY <1>0, Zenon DEF Request
  <2>3. req[r].fam # NoToken => Issued(req[r].fam)
    BY Zenon DEF Linked
  <2> HIDE DEF w
  <2> QED BY <1>0, <2>1, <2>2, <2>3, LinkedRotated, LinkedRequest, Zenon
<1>9. ASSUME NEW r \in Requests, NEW t \in Tokens, NEW cl \in Clients, RevokeToken(r, t, cl)
      PROVE  Linked'
  BY <1>6, <1>9, Zenon DEF RevokeToken
<1>10. ASSUME \/ Tick
              \/ \E c \in Codes, cl \in Clients, sc \in SUBSET Scopes,
                    g \in GrantExpiries \cup {NoExpiry} : Authorize(c, cl, sc, g)
              \/ \E t \in Tokens, cl \in Clients : RevokeAccessToken(t, cl)
              \/ UNCHANGED vars
       PROVE  Linked'
  BY <1>1, <1>10, Zenon DEF Tick, Authorize, RevokeAccessToken, vars
<1>11. ASSUME NEW r \in Requests, Abort(r) PROVE Linked'
  BY <1>2, <1>11, Zenon DEF Abort
<1> QED
  BY <1>3, <1>4, <1>5, <1>7, <1>8, <1>9, <1>10, <1>11, LinkedKill, LinkedMint, Zenon DEF Next

\* What a won rotation does to the families.
LEMMA RotatedMove ==
  ASSUME TypeInv, Linked, NEW r \in Requests, Rotated(r)
  PROVE  \E old \in Tokens :
           /\ Live(old) /\ refresh[old].fam = req[r].fam
           /\ req[r].fam \in Tokens
           /\ \A t \in Tokens : /\ refresh'[t].fam = refresh[t].fam
                                /\ Live(t)' => Live(t) /\ t # old
                                /\ Issued(t) => Issued(t)'
           /\ \A s \in Requests \ {r} : req'[s] = req[s]
           /\ req'[r].fam = req[r].fam
           /\ dead' = dead
<1> DEFINE old == req[r].tok
<1>0. old \in Tokens /\ Live(old) /\ req[r].fam \in Tokens /\ req[r].pc = "rotate"
  BY RotatedEffect, ZenonT(60)
<1>1. old # NoToken
  BY <1>0, SentinelsAssumption, Zenon
<1>2. refresh[old].fam = req[r].fam
  BY <1>0, <1>1, Zenon DEF Linked
<1>3. /\ \A s \in Requests \ {r} : req'[s] = req[s]
      /\ req'[r].fam = req[r].fam
      /\ dead' = dead
  BY RotatedEffect, ZenonT(60)
<1>4. ASSUME NEW t \in Tokens
      PROVE  /\ refresh'[t].fam = refresh[t].fam
             /\ refresh'[t].state = IF t = old THEN "revoked" ELSE refresh[t].state
  BY RotatedEffect, ZenonT(60)
<1> HIDE DEF old
<1>5. ASSUME NEW t \in Tokens
      PROVE  (Live(t)' => Live(t) /\ t # old) /\ (Issued(t) => Issued(t)')
  BY <1>4, Zenon DEF Live, Issued
<1> QED BY <1>0, <1>2, <1>3, <1>4, <1>5, Zenon

-----------------------------------------------------------------------------
(* One live token per family, counting the one a rotation is about to       *)
(* insert.                                                                  *)

OneHeadPerFamily ==
  /\ OneLivePerFamily
  /\ \A t \in Tokens, r \in Requests :
       Live(t) /\ Minting(r) => refresh[t].fam # req[r].fam
  /\ \A r, s \in Requests :
       Minting(r) /\ Minting(s) /\ req[r].fam = req[s].fam => r = s \/ req[r].fam = NoToken

LEMMA OneHeadInit == Init => OneHeadPerFamily
BY IdleType DEF Init, OneHeadPerFamily, OneLivePerFamily, Live, Minting, NoRefreshRow

\* A step that makes no token live and starts no mint keeps one head.
LEMMA OneHeadKept ==
  ASSUME OneHeadPerFamily,
         \A t \in Tokens : refresh'[t].fam = refresh[t].fam /\ (Live(t)' => Live(t)),
         \A s \in Requests : Minting(s)' =>
           req'[s].fam = NoToken \/ (Minting(s) /\ req'[s].fam = req[s].fam),
         \A t \in Tokens : refresh[t].fam # NoToken
  PROVE  OneHeadPerFamily'
<1>1. OneLivePerFamily'
  BY Zenon DEF OneHeadPerFamily, OneLivePerFamily
<1>2. \A t \in Tokens, s \in Requests : Live(t)' /\ Minting(s)' => refresh'[t].fam # req'[s].fam
  BY DEF OneHeadPerFamily
<1>3. \A p, q \in Requests : Minting(p)' /\ Minting(q)' /\ req'[p].fam = req'[q].fam
        => p = q \/ req'[p].fam = NoToken
  BY Zenon DEF OneHeadPerFamily
<1> QED BY <1>1, <1>2, <1>3, Zenon DEF OneHeadPerFamily

LEMMA OneHeadStep == TypeInv /\ Linked /\ OneHeadPerFamily /\ [Next]_vars => OneHeadPerFamily'
<1> SUFFICES ASSUME TypeInv, Linked, OneHeadPerFamily, [Next]_vars
             PROVE  OneHeadPerFamily'
  BY Zenon
<1>0. \A t \in Tokens : refresh[t].fam \in Tokens /\ refresh[t].fam # NoToken
  BY Fields, SentinelsAssumption, Zenon
<1>1. CASE Quiet
  <2>1. \A t \in Tokens : refresh'[t].fam = refresh[t].fam /\ (Live(t)' => Live(t))
    BY <1>1, Zenon DEF Quiet, Live
  <2>2. \A s \in Requests : Minting(s)' => Minting(s) /\ req'[s].fam = req[s].fam
    BY <1>1, Zenon DEF Quiet, Minting
  <2> QED BY <1>0, <2>1, <2>2, OneHeadKept, Zenon
<1>2. ASSUME NEW r \in Requests, NEW c \in Codes, NEW k \in Keys \cup {NoKey}, Exchanged(r, c, k)
      PROVE  OneHeadPerFamily'
  <2>1. refresh' = refresh /\ req' = [req EXCEPT ![r] = MintCode(c, k)]
    BY <1>2, Zenon DEF Exchanged
  <2>2. MintCode(c, k).fam = NoToken /\ req \in [Requests -> Request]
    BY MintCodeType, Zenon DEF TypeInv, TypeOK
  <2>3. \A t \in Tokens : refresh'[t].fam = refresh[t].fam /\ (Live(t)' => Live(t))
    BY <2>1, Zenon DEF Live
  <2>4. \A s \in Requests : Minting(s)' =>
          req'[s].fam = NoToken \/ (Minting(s) /\ req'[s].fam = req[s].fam)
    BY <2>1, <2>2, Zenon DEF Minting
  <2> QED BY <1>0, <2>3, <2>4, OneHeadKept, Zenon
<1>3. ASSUME NEW r \in Requests, Rotated(r)
      PROVE  OneHeadPerFamily'
  <2>1. PICK old \in Tokens :
          /\ Live(old) /\ refresh[old].fam = req[r].fam
          /\ \A t \in Tokens : refresh'[t].fam = refresh[t].fam /\ (Live(t)' => Live(t) /\ t # old)
          /\ \A s \in Requests \ {r} : req'[s] = req[s]
          /\ req'[r].fam = req[r].fam
    BY <1>3, RotatedMove, Zenon
  <2>2. \A s \in Requests \ {r} : (Minting(s)' <=> Minting(s)) /\ req'[s].fam = req[s].fam
    BY <2>1, Zenon DEF Minting
  <2>3. OneLivePerFamily'
    BY <2>1, Zenon DEF OneHeadPerFamily, OneLivePerFamily
  <2>4. \A t \in Tokens : Live(t)' => refresh[t].fam # req[r].fam
    BY <2>1, Zenon DEF OneHeadPerFamily, OneLivePerFamily
  <2>5. \A t \in Tokens, s \in Requests : Live(t)' /\ Minting(s)' => refresh'[t].fam # req'[s].fam
    BY <2>1, <2>2, <2>4 DEF OneHeadPerFamily
  <2>6. \A s \in Requests \ {r} : Minting(s) => req[s].fam # req[r].fam
    BY <2>1, Zenon DEF OneHeadPerFamily
  <2>7. \A p, q \in Requests : Minting(p)' /\ Minting(q)' /\ req'[p].fam = req'[q].fam
          => p = q \/ req'[p].fam = NoToken
    BY <2>1, <2>2, <2>6 DEF OneHeadPerFamily
  <2> QED BY <2>3, <2>5, <2>7, Zenon DEF OneHeadPerFamily
<1>4. ASSUME NEW r \in Requests, HandleCodeReplay(r) \/ RevokeFamily(r)
      PROVE  OneHeadPerFamily'
  <2>1. PICK fams \in SUBSET Tokens :
          /\ RowsRevoked(fams)
          /\ req'[r].pc \in {"idle", "deny"}
          /\ \A s \in Requests \ {r} : req'[s] = req[s]
    BY <1>4, KillEffect, Zenon
  <2>2. \A t \in Tokens : refresh'[t].fam = refresh[t].fam /\ (Live(t)' => Live(t))
    BY <2>1, Zenon DEF RowsRevoked, Live
  <2>3. \A s \in Requests : Minting(s)' => Minting(s) /\ req'[s].fam = req[s].fam
    BY <2>1, Zenon DEF Minting
  <2> QED BY <1>0, <2>2, <2>3, OneHeadKept, Zenon
<1>5. ASSUME NEW r \in Requests, NEW t \in Tokens, Mint(r, t)
      PROVE  OneHeadPerFamily'
  <2>1. /\ Minting(r) /\ ~Issued(t) /\ req'[r] = Idle
        /\ \A s \in Requests \ {r} : req'[s] = req[s]
        /\ \A u \in Tokens \ {t} : refresh'[u] = refresh[u]
        /\ refresh'[t].fam = IF req[r].fam = NoToken THEN t ELSE req[r].fam
    BY <1>5, MintEffect, Zenon DEF TypeInv
  <2>2. \A u \in Tokens : Live(u) => Issued(u) /\ refresh[u].fam # t
    BY <2>1, Zenon DEF Linked, Issued, Live
  <2>3. \A s \in Requests : req[s].fam # t
    BY <2>1, SentinelsAssumption, Zenon DEF Linked
  <2>4. /\ \A u \in Tokens : Live(u)' => u = t \/ (Live(u) /\ refresh'[u].fam = refresh[u].fam)
        /\ \A s \in Requests : Minting(s)' => Minting(s) /\ s # r /\ req'[s].fam = req[s].fam
    BY <2>1, IdleType, Zenon DEF Live, Minting
  <2>5. \A u \in Tokens : Live(u) => refresh'[t].fam # refresh[u].fam
    BY <2>1, <2>2, Zenon DEF OneHeadPerFamily
  <2>6. \A s \in Requests \ {r} : Minting(s) => refresh'[t].fam # req[s].fam
    BY <2>1, <2>3, Zenon DEF OneHeadPerFamily
  <2>7. OneLivePerFamily'
    BY <2>4, <2>5, Zenon DEF OneHeadPerFamily, OneLivePerFamily
  <2>8. \A u \in Tokens, s \in Requests : Live(u)' /\ Minting(s)' => refresh'[u].fam # req'[s].fam
    BY <2>4, <2>6 DEF OneHeadPerFamily
  <2>9. \A p, q \in Requests : Minting(p)' /\ Minting(q)' /\ req'[p].fam = req'[q].fam
          => p = q \/ req'[p].fam = NoToken
    BY <2>4, Zenon DEF OneHeadPerFamily
  <2> QED BY <2>7, <2>8, <2>9, Zenon DEF OneHeadPerFamily
<1> QED BY <1>1, <1>2, <1>3, <1>4, <1>5, StepKinds, Zenon

\* A family never has two live refresh tokens.
THEOREM OneLive == Spec => []OneLivePerFamily
<1>1. Init => TypeInv /\ Linked /\ OneHeadPerFamily
  BY TypeInit, LinkedInit, OneHeadInit, Zenon
<1>2. TypeInv /\ Linked /\ OneHeadPerFamily /\ [Next]_vars
      => (TypeInv /\ Linked /\ OneHeadPerFamily)'
  BY TypeStep, LinkedStep, OneHeadStep, Zenon
<1>3. OneHeadPerFamily => OneLivePerFamily
  BY Zenon DEF OneHeadPerFamily
<1> QED BY <1>1, <1>2, <1>3, PTL DEF Spec

-----------------------------------------------------------------------------
(* Revoked families stay revoked.                                          *)

DeadFamilies ==
  \A f \in dead :
    /\ f \in Tokens
    /\ Issued(f)
    /\ NoMintOf(f)
    /\ \A t \in Tokens : refresh[t].fam = f => ~Live(t)

LEMMA DeadInit == Init => DeadFamilies
BY Zenon DEF Init, DeadFamilies

\* A step that makes no token live, starts no mint of a family and keeps what
\* is issued keeps the dead families dead.
LEMMA DeadKept ==
  ASSUME DeadFamilies,
         \A t \in Tokens : /\ refresh'[t].fam = refresh[t].fam
                           /\ Live(t)' => Live(t)
                           /\ Issued(t) => Issued(t)',
         \A f \in dead : NoMintOf(f)',
         dead' = dead
  PROVE  DeadFamilies'
BY Zenon DEF DeadFamilies

LEMMA DeadStep == TypeInv /\ Linked /\ DeadFamilies /\ [Next]_vars => DeadFamilies'
<1> SUFFICES ASSUME TypeInv, Linked, DeadFamilies, [Next]_vars
             PROVE  DeadFamilies'
  BY Zenon
<1>0. \A f \in dead : f \in Tokens /\ f # NoToken /\ Issued(f) /\ NoMintOf(f)
  BY SentinelsAssumption, Zenon DEF DeadFamilies
<1>1. CASE Quiet
  <2>1. refresh' = refresh /\ dead' = dead
        /\ \A s \in Requests : Minting(s)' => Minting(s) /\ req'[s] = req[s]
    BY <1>1, Zenon DEF Quiet
  <2>2. \A f \in dead : NoMintOf(f)'
    BY <1>0, <2>1, Zenon DEF NoMintOf, Minting
  <2>3. \A t \in Tokens : (Live(t)' <=> Live(t)) /\ (Issued(t)' <=> Issued(t))
    BY <2>1, Zenon DEF Live, Issued
  <2> QED BY <2>1, <2>2, <2>3, DeadKept, Zenon
<1>2. ASSUME NEW r \in Requests, NEW c \in Codes, NEW k \in Keys \cup {NoKey}, Exchanged(r, c, k)
      PROVE  DeadFamilies'
  <2>1. refresh' = refresh /\ dead' = dead /\ req' = [req EXCEPT ![r] = MintCode(c, k)]
    BY <1>2, Zenon DEF Exchanged, history
  <2>2. MintCode(c, k).fam = NoToken /\ req \in [Requests -> Request]
    BY MintCodeType, Zenon DEF TypeInv, TypeOK
  <2>3. \A f \in dead : NoMintOf(f)'
    BY <1>0, <2>1, <2>2, Zenon DEF NoMintOf, Minting
  <2>4. \A t \in Tokens : (Live(t)' <=> Live(t)) /\ (Issued(t)' <=> Issued(t))
    BY <2>1, Zenon DEF Live, Issued
  <2> QED BY <2>1, <2>3, <2>4, DeadKept, Zenon
<1>3. ASSUME NEW r \in Requests, Rotated(r)
      PROVE  DeadFamilies'
  <2>1. PICK old \in Tokens :
          /\ Live(old) /\ refresh[old].fam = req[r].fam
          /\ \A t \in Tokens : /\ refresh'[t].fam = refresh[t].fam
                               /\ Live(t)' => Live(t) /\ t # old
                               /\ Issued(t) => Issued(t)'
          /\ \A s \in Requests \ {r} : req'[s] = req[s]
          /\ req'[r].fam = req[r].fam
          /\ dead' = dead
    BY <1>3, RotatedMove, Zenon
  <2>2. req[r].fam \notin dead
    BY <2>1, Zenon DEF DeadFamilies
  <2>3. \A f \in dead : NoMintOf(f)'
    BY <1>0, <2>1, <2>2 DEF NoMintOf, Minting
  <2> QED BY <2>1, <2>3, DeadKept, Zenon
<1>4. ASSUME NEW r \in Requests, HandleCodeReplay(r) \/ RevokeFamily(r)
      PROVE  DeadFamilies'
  <2>1. \A f \in FamiliesOfCode(req[r].code) : f \in Tokens /\ Issued(f)
    BY Fields, SMTT(30) DEF FamiliesOfCode, Linked
  <2>2. RevokeFamily(r) => req[r].fam \in Tokens /\ Issued(req[r].fam)
    BY SentinelsAssumption, Zenon DEF RevokeFamily, Linked, TypeInv, RequestShape
  <2>3. PICK fams \in SUBSET Tokens :
           /\ \A f \in fams : Issued(f)
           /\ RowsRevoked(fams)
           /\ dead' = dead \cup {f \in fams : NoMintOf(f)}
           /\ req'[r].pc \in {"idle", "deny"}
           /\ \A s \in Requests \ {r} : req'[s] = req[s]
    BY <1>4, <2>1, <2>2, KillEffect, SMTT(30)
  <2>4. \A t \in Tokens : /\ Issued(t) => Issued(t)'
                          /\ refresh'[t].fam = refresh[t].fam
                          /\ Live(t)' => Live(t) /\ refresh[t].fam \notin fams
    BY <2>3, SMTT(30) DEF RowsRevoked, Issued, Live
  <2>5. ASSUME NEW f, NoMintOf(f) PROVE NoMintOf(f)'
    BY <2>3, <2>5, Zenon DEF NoMintOf, Minting
  <2>6. ASSUME NEW f \in dead' PROVE f \in Tokens /\ Issued(f) /\ NoMintOf(f)
    BY <1>0, <2>3, <2>6, Zenon
  <2>7. ASSUME NEW f \in dead', NEW t \in Tokens, refresh'[t].fam = f PROVE ~Live(t)'
    BY <2>3, <2>4, <2>7, Zenon DEF DeadFamilies
  <2> QED BY <2>4, <2>5, <2>6, <2>7, Zenon DEF DeadFamilies
<1>5. ASSUME NEW r \in Requests, NEW t \in Tokens, Mint(r, t)
      PROVE  DeadFamilies'
  <2>1. /\ Minting(r) /\ ~Issued(t) /\ req'[r] = Idle /\ dead' = dead
        /\ \A s \in Requests \ {r} : req'[s] = req[s]
        /\ \A u \in Tokens \ {t} : refresh'[u] = refresh[u]
        /\ refresh'[t].state = "live"
        /\ refresh'[t].fam = IF req[r].fam = NoToken THEN t ELSE req[r].fam
    BY <1>5, MintEffect, Zenon DEF TypeInv
  <2>2. ASSUME NEW f \in dead PROVE f # t /\ refresh'[t].fam # f /\ NoMintOf(f)'
    BY <1>0, <2>1, IdleType, Zenon DEF NoMintOf, Minting
  <2>3. \A u \in Tokens : Issued(u) => Issued(u)'
    BY <2>1, Zenon DEF Issued
  <2>4. \A u \in Tokens \ {t} : (Live(u)' <=> Live(u)) /\ refresh'[u].fam = refresh[u].fam
    BY <2>1, Zenon DEF Live
  <2> QED BY <1>0, <2>1, <2>2, <2>3, <2>4 DEF DeadFamilies
<1> QED BY <1>1, <1>2, <1>3, <1>4, <1>5, StepKinds, Zenon

\* A family revoked while none of its rotations was in flight is dead for good.
THEOREM CleanRevocation == Spec => []CleanRevocationIsFinal
<1>1. Init => TypeInv /\ Linked /\ DeadFamilies
  BY TypeInit, LinkedInit, DeadInit, Zenon
<1>2. TypeInv /\ Linked /\ DeadFamilies /\ [Next]_vars => (TypeInv /\ Linked /\ DeadFamilies)'
  BY TypeStep, LinkedStep, DeadStep, Zenon
<1>3. DeadFamilies => CleanRevocationIsFinal
  BY Zenon DEF DeadFamilies, CleanRevocationIsFinal
<1> QED BY <1>1, <1>2, <1>3, PTL DEF Spec

-----------------------------------------------------------------------------
(* The terms a token carries from its grant through every rotation, on top *)
(* of the family invariants above.                                         *)

\* A request about to rotate, or minting a rotation, carries terms no wider
\* than those of the token it replaces.
RequestTerms ==
  \A r \in Requests : req[r].pc \in {"rotate", "mint"} /\ req[r].tok # NoToken =>
    LET old == refresh[req[r].tok]
    IN  /\ req[r].client = old.client
        /\ req[r].gexp = old.gexp
        /\ req[r].scope \subseteq old.scope
        /\ old.jkt # NoKey => req[r].jkt = old.jkt

TermsInv == RotationNarrowsGrant /\ RequestTerms

\* The fields of a row that no step changes once it is issued.
SameTerms(t) ==
  /\ refresh'[t].fam = refresh[t].fam
  /\ refresh'[t].prev = refresh[t].prev
  /\ refresh'[t].code = refresh[t].code
  /\ refresh'[t].client = refresh[t].client
  /\ refresh'[t].scope = refresh[t].scope
  /\ refresh'[t].jkt = refresh[t].jkt
  /\ refresh'[t].gexp = refresh[t].gexp
  /\ refresh'[t].exp = refresh[t].exp
  /\ refresh'[t].aexp = refresh[t].aexp
  /\ Issued(t)' <=> Issued(t)
  /\ refresh[t].state = "revoked" => refresh'[t].state = "revoked"

LEMMA TermsInit == Init => TermsInv
BY IdleType DEF Init, TermsInv, RotationNarrowsGrant, RequestTerms, Issued, NoRefreshRow

\* When every row keeps its terms, so does every rotation recorded in the rows.
LEMMA NarrowsFrame ==
  ASSUME TypeInv, RotationNarrowsGrant, \A t \in Tokens : SameTerms(t)
  PROVE  RotationNarrowsGrant'
<1> SUFFICES ASSUME NEW t \in Tokens, Issued(t)', refresh'[t].prev # NoToken
             PROVE  LET old == refresh'[refresh'[t].prev]
                        new == refresh'[t]
                    IN  /\ old.state = "revoked"
                        /\ new.fam = old.fam
                        /\ new.client = old.client
                        /\ new.gexp = old.gexp
                        /\ new.scope \subseteq old.scope
                        /\ old.jkt # NoKey => new.jkt = old.jkt
  BY Zenon DEF RotationNarrowsGrant
<1>1. PICK p \in Tokens : p = refresh[t].prev /\ p = refresh'[t].prev
  BY Fields, Zenon DEF SameTerms
<1>2. SameTerms(t) /\ SameTerms(p) /\ Issued(t)
  BY Zenon DEF SameTerms
<1> QED BY <1>1, <1>2, ZenonT(60) DEF SameTerms, RotationNarrowsGrant

LEMMA RotatedKeepsTerms ==
  ASSUME TypeInv, NEW r \in Requests, Rotated(r)
  PROVE  /\ \A t \in Tokens : SameTerms(t)
         /\ \A s \in Requests :
              /\ req'[s].pc \in {"rotate", "mint"} => req[s].pc \in {"rotate", "mint"}
              /\ req'[s].tok = req[s].tok /\ req'[s].client = req[s].client
              /\ req'[s].scope = req[s].scope /\ req'[s].jkt = req[s].jkt
              /\ req'[s].gexp = req[s].gexp /\ req'[s].code = req[s].code
<1>1. ASSUME NEW t \in Tokens PROVE SameTerms(t)
  BY RotatedEffect, ZenonT(60) DEF SameTerms, Issued, Live
<1>2. \A s \in Requests \ {r} : req'[s] = req[s]
  BY RotatedEffect, Zenon
<1>3. /\ req[r].pc = "rotate"
      /\ req'[r].tok = req[r].tok /\ req'[r].client = req[r].client
      /\ req'[r].scope = req[r].scope /\ req'[r].jkt = req[r].jkt
      /\ req'[r].gexp = req[r].gexp /\ req'[r].code = req[r].code
  BY RotatedEffect, Zenon
<1> QED BY <1>1, <1>2, <1>3, Zenon

LEMMA TermsStep == TypeInv /\ Linked /\ TermsInv /\ [Next]_vars => TermsInv'
<1> SUFFICES ASSUME TypeInv, Linked, TermsInv, [Next]_vars
             PROVE  TermsInv'
  BY Zenon
<1> USE SentinelsAssumption DEF TermsInv
<1>1. CASE Quiet
  <2>1. \A t \in Tokens : SameTerms(t)
    BY <1>1, Zenon DEF Quiet, SameTerms, Issued
  <2>2. RequestTerms'
    <3> SUFFICES ASSUME NEW r \in Requests, req'[r].pc \in {"rotate", "mint"}, req'[r].tok # NoToken
                 PROVE  /\ req'[r].client = refresh[req'[r].tok].client
                        /\ req'[r].gexp = refresh[req'[r].tok].gexp
                        /\ req'[r].scope \subseteq refresh[req'[r].tok].scope
                        /\ refresh[req'[r].tok].jkt # NoKey => req'[r].jkt = refresh[req'[r].tok].jkt
      BY <1>1, Zenon DEF RequestTerms, Quiet
    <3>1. CASE req'[r] = req[r]
      BY <3>1, Zenon DEF RequestTerms
    <3>2. CASE StartsRotation(r)
      BY <3>2, RotateTokenType DEF StartsRotation, TypeInv
    <3> QED BY <1>1, <3>1, <3>2, Zenon DEF Quiet, Minting
  <2> QED BY <2>1, <2>2, NarrowsFrame, Zenon
<1>2. ASSUME NEW r \in Requests, NEW c \in Codes, NEW k \in Keys \cup {NoKey}, Exchanged(r, c, k)
      PROVE  TermsInv'
  <2>1. \A t \in Tokens : SameTerms(t)
    BY <1>2, ExchangedEffect, Zenon DEF SameTerms, Issued
  <2>2. RequestTerms'
    BY <1>2, ExchangedEffect, MintCodeType DEF RequestTerms, TypeInv
  <2> QED BY <2>1, <2>2, NarrowsFrame, Zenon
<1>3. ASSUME NEW r \in Requests, Rotated(r)
      PROVE  TermsInv'
  <2>1. \A t \in Tokens : SameTerms(t)
    BY <1>3, RotatedKeepsTerms, Zenon
  <2>2. RequestTerms'
    <3> SUFFICES ASSUME NEW s \in Requests, req'[s].pc \in {"rotate", "mint"}, req'[s].tok # NoToken
                 PROVE  /\ req'[s].client = refresh'[req'[s].tok].client
                        /\ req'[s].gexp = refresh'[req'[s].tok].gexp
                        /\ req'[s].scope \subseteq refresh'[req'[s].tok].scope
                        /\ refresh'[req'[s].tok].jkt # NoKey => req'[s].jkt = refresh'[req'[s].tok].jkt
      BY Zenon DEF RequestTerms
    <3>1. /\ req[s].pc \in {"rotate", "mint"}
          /\ req'[s].tok = req[s].tok /\ req'[s].client = req[s].client
          /\ req'[s].scope = req[s].scope /\ req'[s].jkt = req[s].jkt /\ req'[s].gexp = req[s].gexp
      BY <1>3, RotatedKeepsTerms, Zenon
    <3>2. req[s].tok \in Tokens
      BY <3>1, Fields, Zenon
    <3>3. SameTerms(req[s].tok)
      BY <2>1, <3>2, Zenon
    <3> QED BY <3>1, <3>2, <3>3, Zenon DEF RequestTerms, SameTerms
  <2> QED BY <2>1, <2>2, NarrowsFrame, Zenon
<1>4. ASSUME NEW r \in Requests, HandleCodeReplay(r) \/ RevokeFamily(r)
      PROVE  TermsInv'
  <2>1. \A t \in Tokens : SameTerms(t)
    BY <1>4, KillEffect DEF RowsRevoked, SameTerms, Issued, Live
  <2>2. RequestTerms'
    BY <1>4, <2>1, KillEffect, Fields DEF RequestTerms, SameTerms
  <2> QED BY <2>1, <2>2, NarrowsFrame, Zenon
<1>5. ASSUME NEW r \in Requests, NEW t \in Tokens, Mint(r, t)
      PROVE  TermsInv'
  <2>1. \A u \in Tokens : Issued(u) => refresh'[u] = refresh[u] /\ u # t
    BY <1>5, MintEffect, Zenon DEF TypeInv
  <2>2. RequestTerms'
    BY <1>5, <2>1, MintEffect, IdleType, Fields, SMTT(30) DEF RequestTerms, Linked, TypeInv
  <2>3. RotationNarrowsGrant'
    <3>1. ASSUME NEW u \in Tokens, Issued(u)', refresh'[u].prev # NoToken, u # t
          PROVE  /\ refresh'[u] = refresh[u]
                 /\ Issued(u)
                 /\ refresh'[refresh[u].prev] = refresh[refresh[u].prev]
      BY <1>5, <2>1, <3>1, MintEffect, Fields DEF RotationNarrowsGrant, Issued, TypeInv
    <3>2. refresh'[t].prev # NoToken =>
            LET old == refresh'[refresh'[t].prev]
                new == refresh'[t]
            IN  /\ old.state = "revoked"
                /\ new.fam = old.fam
                /\ new.client = old.client
                /\ new.gexp = old.gexp
                /\ new.scope \subseteq old.scope
                /\ old.jkt # NoKey => new.jkt = old.jkt
      <4> SUFFICES ASSUME refresh'[t].prev # NoToken
                   PROVE  LET old == refresh'[refresh'[t].prev]
                              new == refresh'[t]
                          IN  /\ old.state = "revoked"
                              /\ new.fam = old.fam
                              /\ new.client = old.client
                              /\ new.gexp = old.gexp
                              /\ new.scope \subseteq old.scope
                              /\ old.jkt # NoKey => new.jkt = old.jkt
        BY Zenon
      <4>1. PICK p \in Tokens : p = req[r].tok /\ p = refresh'[t].prev
        BY <1>5, MintEffect, Fields DEF TypeInv
      <4>2. Issued(p) /\ ~Live(p) /\ refresh[p].fam = req[r].fam
        BY <1>5, <4>1, MintEffect DEF Linked, Minting, TypeInv
      <4>3. refresh'[p] = refresh[p] /\ refresh[p].state = "revoked"
        BY <2>1, <4>2, Zenon DEF Issued, Live, TypeInv, TypeOK, RefreshRow
      <4>4. req[r].fam # NoToken
        BY <4>2, Fields, Zenon
      <4> QED BY <1>5, <4>1, <4>2, <4>3, <4>4, MintEffect, SMTT(30) DEF RequestTerms, Minting, TypeInv
    <3> QED BY <3>1, <3>2 DEF RotationNarrowsGrant
  <2> QED BY <2>2, <2>3, Zenon
<1> QED BY <1>1, <1>2, <1>3, <1>4, <1>5, StepKinds, Zenon

\* Rotation only narrows a grant.
THEOREM RotationNarrows == Spec => []RotationNarrowsGrant
<1>1. Init => TypeInv /\ Linked /\ TermsInv
  BY TypeInit, LinkedInit, TermsInit, Zenon
<1>2. TypeInv /\ Linked /\ TermsInv /\ [Next]_vars => (TypeInv /\ Linked /\ TermsInv)'
  BY TypeStep, LinkedStep, TermsStep, Zenon
<1>3. TermsInv => RotationNarrowsGrant
  BY Zenon DEF TermsInv
<1> QED BY <1>1, <1>2, <1>3, PTL DEF Spec

-----------------------------------------------------------------------------
(* Expiry.                                                                 *)

\* Every step keeps the terms of every row, or mints one new row.
LEMMA RowsKeepTerms ==
  ASSUME TypeInv, [Next]_vars
  PROVE  \/ \A t \in Tokens : SameTerms(t)
         \/ \E r \in Requests, t \in Tokens : Mint(r, t)
<1>1. CASE Quiet
  BY <1>1, Zenon DEF Quiet, SameTerms, Issued
<1>2. ASSUME NEW r \in Requests, NEW c \in Codes, NEW k \in Keys \cup {NoKey}, Exchanged(r, c, k)
      PROVE  \A t \in Tokens : SameTerms(t)
  BY <1>2, ExchangedEffect, Zenon DEF SameTerms, Issued
<1>3. ASSUME NEW r \in Requests, Rotated(r)
      PROVE  \A t \in Tokens : SameTerms(t)
  BY <1>3, RotatedKeepsTerms, Zenon
<1>4. ASSUME NEW r \in Requests, HandleCodeReplay(r) \/ RevokeFamily(r)
      PROVE  \A t \in Tokens : SameTerms(t)
  BY <1>4, KillEffect, Zenon DEF RowsRevoked, SameTerms, Issued, Live
<1> QED BY <1>1, <1>2, <1>3, <1>4, StepKinds, Zenon

\* The grant expiry is the same in the whole family and caps both expiries.
ExpiryInv ==
  \A t \in Tokens : Issued(t) =>
    /\ refresh[t].gexp = refresh[refresh[t].fam].gexp
    /\ refresh[t].gexp # NoExpiry => /\ refresh[t].exp <= refresh[t].gexp
                                     /\ refresh[t].aexp <= refresh[t].gexp

LEMMA CapExpiryBound ==
  ASSUME TypeInv, NEW ttl \in Nat, NEW g \in Nat, g # NoExpiry
  PROVE  CapExpiry(ttl, g) <= g
BY DEF CapExpiry, TypeInv, TypeOK

LEMMA ExpiryStep == TypeInv /\ Linked /\ TermsInv /\ ExpiryInv /\ [Next]_vars => ExpiryInv'
<1> SUFFICES ASSUME TypeInv, Linked, TermsInv, ExpiryInv, [Next]_vars
             PROVE  ExpiryInv'
  BY Zenon
<1>1. CASE \A t \in Tokens : SameTerms(t)
  <2> SUFFICES ASSUME NEW t \in Tokens, Issued(t)'
               PROVE  /\ refresh'[t].gexp = refresh'[refresh'[t].fam].gexp
                      /\ refresh'[t].gexp # NoExpiry => /\ refresh'[t].exp <= refresh'[t].gexp
                                                        /\ refresh'[t].aexp <= refresh'[t].gexp
    BY Zenon DEF ExpiryInv
  <2>1. refresh[t].fam \in Tokens
    BY Fields, Zenon
  <2>2. SameTerms(t) /\ SameTerms(refresh[t].fam)
    BY <1>1, <2>1, Zenon
  <2> QED BY <2>2, Zenon DEF SameTerms, ExpiryInv
<1>2. ASSUME NEW r \in Requests, NEW t \in Tokens, Mint(r, t)
      PROVE  ExpiryInv'
  <2> DEFINE g == req[r].gexp
  <2>1. \A u \in Tokens : Issued(u) => refresh'[u] = refresh[u] /\ u # t
    BY <1>2, MintEffect, Zenon DEF TypeInv
  <2>2. ASSUME NEW u \in Tokens, Issued(u)', u # t
        PROVE  /\ Issued(u) /\ refresh'[u] = refresh[u]
               /\ refresh'[refresh[u].fam] = refresh[refresh[u].fam]
    BY <1>2, <2>1, <2>2, MintEffect, Fields, SMTT(30) DEF Linked, Issued, TypeInv
  <2>3. g \in Nat
    BY Zenon DEF TypeInv, TypeOK, Request
  <2>4. /\ refresh'[t].gexp = g
        /\ g # NoExpiry => /\ refresh'[t].exp <= g
                           /\ refresh'[t].aexp <= g
    BY <1>2, <2>3, MintEffect, CapExpiryBound, TimesAssumption DEF TypeInv
  <2>5. refresh'[refresh'[t].fam].gexp = g
    <3>1. CASE req[r].fam = NoToken
      BY <1>2, <2>4, <3>1, MintEffect, Zenon DEF TypeInv
    <3>2. CASE req[r].fam # NoToken
      <4>1. req[r].tok \in Tokens /\ Minting(r)
        BY <1>2, <3>2, MintEffect, Fields, Zenon DEF TypeInv, RequestShape, Minting
      <4>2. /\ Issued(req[r].tok) /\ refresh[req[r].tok].fam = req[r].fam
            /\ Issued(req[r].fam)
        BY <3>2, <4>1, SentinelsAssumption, Zenon DEF Linked, Minting
      <4>3. refresh[req[r].tok].gexp = g
        BY <4>1, SentinelsAssumption, Zenon DEF TermsInv, RequestTerms, Minting
      <4>4. refresh[req[r].fam].gexp = g
        BY <4>1, <4>2, <4>3, Zenon DEF ExpiryInv
      <4>5. req[r].fam \in Tokens
        BY <3>2, Fields, Zenon
      <4>6. refresh'[req[r].fam] = refresh[req[r].fam] /\ refresh'[t].fam = req[r].fam
        BY <1>2, <2>1, <3>2, <4>2, <4>5, MintEffect, Zenon DEF TypeInv
      <4> QED BY <4>4, <4>6, Zenon
    <3> QED BY <3>1, <3>2, Zenon
  <2> HIDE DEF g
  <2> QED BY <2>2, <2>4, <2>5 DEF ExpiryInv
<1> QED BY <1>1, <1>2, RowsKeepTerms, Zenon

\* No token outlives the grant its family was started from.
THEOREM GrantExpiryBounds == Spec => []GrantNeverOutlived
<1>1. Init => TypeInv /\ Linked /\ TermsInv /\ ExpiryInv
  <2>1. Init => \A t \in Tokens : ~Issued(t)
    BY DEF Init, Issued, NoRefreshRow
  <2>2. Init => ExpiryInv
    BY <2>1, Zenon DEF ExpiryInv
  <2> QED BY <2>2, TypeInit, LinkedInit, TermsInit, Zenon
<1>2. TypeInv /\ Linked /\ TermsInv /\ ExpiryInv /\ [Next]_vars
      => (TypeInv /\ Linked /\ TermsInv /\ ExpiryInv)'
  BY TypeStep, LinkedStep, TermsStep, ExpiryStep, Zenon
<1>3. ExpiryInv => GrantNeverOutlived
  BY Zenon DEF ExpiryInv, GrantNeverOutlived
<1> QED BY <1>1, <1>2, <1>3, PTL DEF Spec

-----------------------------------------------------------------------------
(* Proofs that codes and refresh tokens are redeemed once, that a handled  *)
(* replay is final, and that the denylist keeps an access token out until  *)
(* it has expired.                                                         *)

\* A code is gone, and no other token or mint has it, once something was
\* issued or is being minted from it; a token being replaced has no successor.
OnceInv ==
  /\ RedeemedOnce
  /\ \A t \in Tokens : Issued(t) /\ refresh[t].code # NoCode =>
       codes[refresh[t].code].state = "gone"
  /\ \A r \in Requests : Minting(r) /\ req[r].code # NoCode =>
       /\ codes[req[r].code].state = "gone"
       /\ \A t \in Tokens : Issued(t) => refresh[t].code # req[r].code
  /\ \A r, s \in Requests : Minting(r) /\ Minting(s) /\ req[r].code # NoCode
       /\ req[r].code = req[s].code => r = s
  /\ \A r \in Requests : Minting(r) /\ req[r].tok # NoToken =>
       \A t \in Tokens : Issued(t) => refresh[t].prev # req[r].tok
  /\ \A r \in Requests : req[r].pc = "rotate" => req[r].code = NoCode

LEMMA OnceInit == Init => OnceInv
BY IdleType DEF Init, OnceInv, RedeemedOnce, Issued, Minting, NoRefreshRow

\* What a step must keep for OnceInv to survive it, when it mints nothing.
LEMMA OnceFrame ==
  ASSUME TypeInv, OnceInv,
         \A t \in Tokens : SameTerms(t),
         \A c \in Codes : codes[c].state = "gone" => codes'[c].state = "gone",
         \A r \in Requests : Minting(r)' => Minting(r) /\ req'[r] = req[r],
         \A r \in Requests : req'[r].pc = "rotate" => req'[r].code = NoCode
  PROVE  OnceInv'
<1> USE DEF OnceInv, Minting
<1>1. RedeemedOnce'
  BY DEF RedeemedOnce, SameTerms
<1>2. \A t \in Tokens : Issued(t)' /\ refresh'[t].code # NoCode =>
        codes'[refresh'[t].code].state = "gone"
  BY Fields DEF SameTerms
<1>3. \A r \in Requests : Minting(r)' /\ req'[r].code # NoCode =>
        /\ codes'[req'[r].code].state = "gone"
        /\ \A t \in Tokens : Issued(t)' => refresh'[t].code # req'[r].code
  BY Fields DEF SameTerms
<1>4. \A r \in Requests : Minting(r)' /\ req'[r].tok # NoToken =>
        \A t \in Tokens : Issued(t)' => refresh'[t].prev # req'[r].tok
  BY DEF SameTerms
<1>5. \A r, s \in Requests : Minting(r)' /\ Minting(s)' /\ req'[r].code # NoCode
        /\ req'[r].code = req'[s].code => r = s
  OBVIOUS
<1> QED BY <1>1, <1>2, <1>3, <1>4, <1>5, Zenon

LEMMA OnceStep ==
  TypeInv /\ Linked /\ OneHeadPerFamily /\ TermsInv /\ OnceInv /\ [Next]_vars => OnceInv'
<1> SUFFICES ASSUME TypeInv, Linked, OneHeadPerFamily, TermsInv, OnceInv, [Next]_vars
             PROVE  OnceInv'
  BY Zenon
<1>1. CASE Quiet
  <2>1. \A t \in Tokens : SameTerms(t)
    BY <1>1, Zenon DEF Quiet, SameTerms, Issued
  <2>2. ASSUME NEW r \in Requests, req'[r].pc = "rotate" PROVE req'[r].code = NoCode
    <3>1. CASE req'[r] = req[r]
      BY <2>2, <3>1, Zenon DEF OnceInv
    <3>2. CASE StartsRotation(r)
      BY <3>2, RotateTokenType DEF StartsRotation, TypeInv
    <3> QED BY <1>1, <2>2, <3>1, <3>2, Zenon DEF Quiet
  <2> QED BY <1>1, <2>1, <2>2, OnceFrame, Zenon DEF Quiet
<1>2. ASSUME NEW r \in Requests, NEW c \in Codes, NEW k \in Keys \cup {NoKey}, Exchanged(r, c, k)
      PROVE  OnceInv'
  <2>1. /\ req'[r].pc = "mint" /\ req'[r].code = c /\ req'[r].tok = NoToken
        /\ \A s \in Requests \ {r} : req'[s] = req[s]
        /\ codes[c].state = "live" /\ codes'[c].state = "gone"
        /\ \A d \in Codes \ {c} : codes'[d] = codes[d]
        /\ refresh' = refresh
    BY <1>2, ExchangedEffect, MintCodeType DEF TypeInv
  <2> USE DEF OnceInv, Minting, Issued
  <2>2. RedeemedOnce'
    BY <2>1, Zenon DEF RedeemedOnce
  <2>3. \A t \in Tokens : Issued(t) => refresh[t].code # c
    BY <2>1, SentinelsAssumption, Zenon
  <2>4. \A s \in Requests : Minting(s) => req[s].code # c
    BY <2>1, SentinelsAssumption, Zenon
  <2>5. \A t \in Tokens : Issued(t)' /\ refresh'[t].code # NoCode =>
          codes'[refresh'[t].code].state = "gone"
    BY <2>1, <2>3, Fields
  <2>6. \A s \in Requests : Minting(s)' /\ req'[s].code # NoCode =>
          /\ codes'[req'[s].code].state = "gone"
          /\ \A t \in Tokens : Issued(t)' => refresh'[t].code # req'[s].code
    BY <2>1, <2>3, <2>4, Fields
  <2>7. \A p, q \in Requests : Minting(p)' /\ Minting(q)' /\ req'[p].code # NoCode
          /\ req'[p].code = req'[q].code => p = q
    BY <2>1, <2>4
  <2>8. \A s \in Requests : Minting(s)' /\ req'[s].tok # NoToken =>
          \A t \in Tokens : Issued(t)' => refresh'[t].prev # req'[s].tok
    BY <2>1
  <2>9. \A s \in Requests : req'[s].pc = "rotate" => req'[s].code = NoCode
    BY <2>1
  <2> QED BY <2>2, <2>5, <2>6, <2>7, <2>8, <2>9, Zenon
<1>3. ASSUME NEW r \in Requests, Rotated(r)
      PROVE  OnceInv'
  <2>1. \A t \in Tokens : SameTerms(t)
    BY <1>3, RotatedKeepsTerms, Zenon
  <2>2. /\ req[r].pc = "rotate" /\ req[r].tok \in Tokens /\ Live(req[r].tok)
        /\ req'[r].pc = "mint" /\ req'[r].tok = req[r].tok /\ req'[r].code = req[r].code
        /\ \A s \in Requests \ {r} : req'[s] = req[s]
        /\ codes' = codes
    BY <1>3, RotatedEffect, Zenon
  <2>3. req[r].code = NoCode
    BY <2>2, Zenon DEF OnceInv
  <2>4. \A t \in Tokens : Issued(t) => refresh[t].prev # req[r].tok
    BY <2>2, SentinelsAssumption, Zenon DEF TermsInv, RotationNarrowsGrant, Live
  <2> USE DEF OnceInv, Minting
  <2>5. RedeemedOnce'
    BY <2>1 DEF RedeemedOnce, SameTerms
  <2>6. \A t \in Tokens : Issued(t)' /\ refresh'[t].code # NoCode =>
          codes'[refresh'[t].code].state = "gone"
    BY <2>1, <2>2 DEF SameTerms
  <2>7. \A s \in Requests : Minting(s)' /\ req'[s].code # NoCode =>
          /\ codes'[req'[s].code].state = "gone"
          /\ \A t \in Tokens : Issued(t)' => refresh'[t].code # req'[s].code
    BY <2>1, <2>2, <2>3, SMTT(30) DEF SameTerms
  <2>8. \A p, q \in Requests : Minting(p)' /\ Minting(q)' /\ req'[p].code # NoCode
          /\ req'[p].code = req'[q].code => p = q
    BY <2>2, <2>3, SMTT(30)
  <2>9. \A s \in Requests : Minting(s)' /\ req'[s].tok # NoToken =>
          \A t \in Tokens : Issued(t)' => refresh'[t].prev # req'[s].tok
    BY <2>1, <2>2, <2>4 DEF SameTerms
  <2>10. \A s \in Requests : req'[s].pc = "rotate" => req'[s].code = NoCode
    BY <2>2, Zenon
  <2> QED BY <2>5, <2>6, <2>7, <2>8, <2>9, <2>10, Zenon
<1>4. ASSUME NEW r \in Requests, HandleCodeReplay(r) \/ RevokeFamily(r)
      PROVE  OnceInv'
  <2>1. \A t \in Tokens : SameTerms(t)
    BY <1>4, KillEffect DEF RowsRevoked, SameTerms, Issued, Live
  <2>2. /\ req'[r].pc \in {"idle", "deny"}
        /\ \A s \in Requests \ {r} : req'[s] = req[s]
        /\ codes' = codes
    BY <1>4, KillEffect, Zenon
  <2>3. \A s \in Requests : /\ req'[s].pc = "rotate" => req'[s].code = NoCode
                            /\ Minting(s)' => Minting(s) /\ req'[s] = req[s]
    BY <2>2, Zenon DEF OnceInv, Minting
  <2> QED BY <2>1, <2>2, <2>3, OnceFrame, Zenon
<1>5. ASSUME NEW r \in Requests, NEW t \in Tokens, Mint(r, t)
      PROVE  OnceInv'
  <2>1. /\ req[r].pc = "mint" /\ req'[r].pc = "idle"
        /\ \A s \in Requests \ {r} : req'[s] = req[s]
        /\ \A u \in Tokens \ {t} : refresh'[u] = refresh[u]
        /\ ~Issued(t)
        /\ refresh'[t].code = req[r].code /\ refresh'[t].prev = req[r].tok
        /\ codes' = codes
    BY <1>5, MintEffect, IdleType, Zenon DEF TypeInv, Minting
  <2>2. \A s \in Requests \ {r} : Minting(s) /\ req[s].tok # NoToken => req[s].tok # req[r].tok
    <3> SUFFICES ASSUME NEW s \in Requests \ {r}, Minting(s), req[s].tok # NoToken,
                        req[s].tok = req[r].tok
                 PROVE  FALSE
      BY Zenon
    <3>1. req[s].fam = req[r].fam
      BY <2>1, Zenon DEF Linked, Minting
    <3>2. req[s].fam # NoToken
      BY Zenon DEF TypeInv, RequestShape, Minting
    <3> QED BY <2>1, <3>1, <3>2, Zenon DEF OneHeadPerFamily, Minting
  <2> USE DEF OnceInv, Minting, Issued
  <2>3. RedeemedOnce'
    BY <2>1, SMTT(30) DEF RedeemedOnce
  <2>4. \A u \in Tokens : Issued(u)' /\ refresh'[u].code # NoCode =>
          codes'[refresh'[u].code].state = "gone"
    BY <2>1
  <2>5. \A s \in Requests : Minting(s)' /\ req'[s].code # NoCode =>
          /\ codes'[req'[s].code].state = "gone"
          /\ \A u \in Tokens : Issued(u)' => refresh'[u].code # req'[s].code
    BY <2>1
  <2>6. \A p, q \in Requests : Minting(p)' /\ Minting(q)' /\ req'[p].code # NoCode
          /\ req'[p].code = req'[q].code => p = q
    BY <2>1
  <2>7. \A s \in Requests : Minting(s)' /\ req'[s].tok # NoToken =>
          \A u \in Tokens : Issued(u)' => refresh'[u].prev # req'[s].tok
    BY <2>1, <2>2
  <2>8. \A s \in Requests : req'[s].pc = "rotate" => req'[s].code = NoCode
    BY <2>1
  <2> QED BY <2>3, <2>4, <2>5, <2>6, <2>7, <2>8, Zenon
<1> QED BY <1>1, <1>2, <1>3, <1>4, <1>5, StepKinds, Zenon

\* A code starts one family and a refresh token has one successor.
THEOREM RedeemOnce == Spec => []RedeemedOnce
<1> DEFINE Inv == TypeInv /\ Linked /\ OneHeadPerFamily /\ TermsInv /\ OnceInv
<1>1. Init => Inv
  BY TypeInit, LinkedInit, OneHeadInit, TermsInit, OnceInit, Zenon
<1>2. Inv /\ [Next]_vars => Inv'
  BY TypeStep, LinkedStep, OneHeadStep, TermsStep, OnceStep, Zenon
<1>3. Inv => RedeemedOnce
  BY Zenon DEF OnceInv
<1> QED BY <1>1, <1>2, <1>3, PTL DEF Spec

-----------------------------------------------------------------------------
(* A handled replay is final.                                              *)

SpentInv ==
  /\ \A r \in Requests : req[r].pc = "replay" => codes[req[r].code].state = "gone"
  /\ \A c \in spent :
       /\ codes[c].state = "gone"
       /\ \A r \in Requests : ~(Minting(r) /\ req[r].code = c)
       /\ \A t \in Tokens : Issued(t) /\ refresh[t].code = c => refresh[t].fam \in dead

LEMMA SpentInit == Init => SpentInv
BY IdleType, Zenon DEF Init, SpentInv

LEMMA SpentStep == TypeInv /\ OnceInv /\ SpentInv /\ [Next]_vars => SpentInv'
<1> SUFFICES ASSUME TypeInv, OnceInv, SpentInv, [Next]_vars
             PROVE  SpentInv'
  BY Zenon
<1>0. spent \subseteq Codes
  BY Zenon DEF TypeInv, TypeOK
<1>1. CASE Quiet
  <2>1. \A r \in Requests : req'[r].pc = "replay" => codes'[req'[r].code].state = "gone"
    <3> SUFFICES ASSUME NEW r \in Requests, req'[r].pc = "replay"
                 PROVE  codes'[req'[r].code].state = "gone"
      BY Zenon
    <3>1. req'[r].code \in Codes
      BY TypeStep, Zenon DEF TypeInv, RequestShape
    <3>2. codes[req'[r].code].state = "gone"
      BY <1>1, Zenon DEF Quiet, SpentInv
    <3> QED BY <1>1, <3>1, <3>2, Zenon DEF Quiet
  <2> QED BY <1>0, <1>1, <2>1 DEF Quiet, SpentInv, Minting, Issued
<1>2. ASSUME NEW r \in Requests, NEW c \in Codes, NEW k \in Keys \cup {NoKey}, Exchanged(r, c, k)
      PROVE  SpentInv'
  <2>1. /\ req'[r].pc = "mint" /\ req'[r].code = c
        /\ \A s \in Requests \ {r} : req'[s] = req[s]
        /\ codes[c].state = "live" /\ codes'[c].state = "gone"
        /\ \A d \in Codes \ {c} : codes'[d] = codes[d]
        /\ refresh' = refresh /\ spent' = spent /\ dead' = dead
    BY <1>2, ExchangedEffect, MintCodeType, SMTT(30) DEF TypeInv
  <2>2. \A s \in Requests : req[s].pc = "replay" => req[s].code \in Codes
    BY Zenon DEF TypeInv, RequestShape
  <2> QED BY <1>0, <2>1, <2>2 DEF SpentInv, Minting, Issued
<1>3. ASSUME NEW r \in Requests, Rotated(r)
      PROVE  SpentInv'
  <2>1. \A t \in Tokens : SameTerms(t)
    BY <1>3, RotatedKeepsTerms, Zenon
  <2>2. /\ req[r].pc = "rotate" /\ req'[r].pc = "mint" /\ req'[r].code = req[r].code
        /\ \A s \in Requests \ {r} : req'[s] = req[s]
        /\ codes' = codes /\ spent' = spent /\ dead' = dead
    BY <1>3, RotatedEffect, Zenon
  <2>3. req'[r].code = NoCode
    BY <2>2, Zenon DEF OnceInv
  <2> QED BY <1>0, <2>1, <2>2, <2>3, SentinelsAssumption DEF SpentInv, SameTerms, Minting
<1>4. ASSUME NEW r \in Requests, HandleCodeReplay(r) \/ RevokeFamily(r)
      PROVE  SpentInv'
  <2>1. \A t \in Tokens : SameTerms(t)
    BY <1>4, KillEffect, SMTT(30) DEF RowsRevoked, SameTerms, Issued, Live
  <2>2. /\ req'[r].pc \in {"idle", "deny"}
        /\ \A s \in Requests \ {r} : req'[s] = req[s]
        /\ codes' = codes /\ dead \subseteq dead'
    BY <1>4, KillEffect, Zenon
  <2>3. CASE spent' = spent
    BY <2>1, <2>2, <2>3, SMTT(30) DEF SpentInv, SameTerms, Minting
  <2>4. CASE spent' # spent
    <3> DEFINE c == req[r].code
    <3>1. /\ HandleCodeReplay(r)
          /\ \A s \in Requests : ~(Minting(s) /\ req[s].code = c)
          /\ \A f \in FamiliesOfCode(c) : NoMintOf(f)
          /\ spent' = spent \cup {c}
          /\ dead' = dead \cup {f \in FamiliesOfCode(c) : NoMintOf(f)}
          /\ req[r].pc = "replay"
      BY <1>4, <2>4, Zenon DEF HandleCodeReplay, RevokeFamily
    <3>2. codes[c].state = "gone"
      BY <3>1, Zenon DEF SpentInv
    <3>3. \A t \in Tokens : Issued(t) /\ refresh[t].code = c => refresh[t].fam \in dead'
      BY <3>1, Zenon DEF FamiliesOfCode
    <3> HIDE DEF c
    <3> QED BY <2>1, <2>2, <3>1, <3>2, <3>3, SMTT(30) DEF SpentInv, SameTerms, Minting
  <2> QED BY <2>3, <2>4, Zenon
<1>5. ASSUME NEW r \in Requests, NEW t \in Tokens, Mint(r, t)
      PROVE  SpentInv'
  <2>1. /\ req[r].pc = "mint" /\ req'[r].pc = "idle"
        /\ \A s \in Requests \ {r} : req'[s] = req[s]
        /\ \A u \in Tokens \ {t} : refresh'[u] = refresh[u]
        /\ refresh'[t].code = req[r].code
        /\ codes' = codes /\ spent' = spent /\ dead' = dead
    BY <1>5, MintEffect, IdleType, Zenon DEF TypeInv, Minting
  <2> QED BY <2>1 DEF SpentInv, Minting, Issued
<1> QED BY <1>1, <1>2, <1>3, <1>4, <1>5, StepKinds, Zenon

\* A code whose replay was handled with nothing of it in flight backs no live
\* token again.
THEOREM CleanReplay == Spec => []CleanReplayIsFinal
<1> DEFINE Inv == /\ TypeInv /\ Linked /\ OneHeadPerFamily /\ TermsInv /\ OnceInv
                  /\ DeadFamilies /\ SpentInv
<1>1. Init => Inv
  BY TypeInit, LinkedInit, OneHeadInit, TermsInit, OnceInit, DeadInit, SpentInit, Zenon
<1>2. Inv /\ [Next]_vars => Inv'
  BY TypeStep, LinkedStep, OneHeadStep, TermsStep, OnceStep, DeadStep, SpentStep, Zenon
<1>3. Inv => CleanReplayIsFinal
  BY Zenon DEF DeadFamilies, SpentInv, CleanReplayIsFinal, FamiliesOfCode
<1> QED BY <1>1, <1>2, <1>3, PTL DEF Spec

-----------------------------------------------------------------------------
(* The denylist.                                                           *)

\* An entry outlasts its access token, because no token lives longer than
\* AccessTTL from any later instant.
DenyInv ==
  /\ \A t \in Tokens : Issued(t) => refresh[t].aexp <= now + AccessTTL
  /\ \A t \in Tokens : denied[t] # 0 => Issued(t) /\ refresh[t].aexp <= denied[t]
  /\ \A r \in Requests : \A t \in req[r].jtis : Issued(t)

LEMMA DenyInit == Init => DenyInv
BY DEF Init, DenyInv, Idle, Issued, NoRefreshRow

\* The clock and the denylist change in three ways only.
DenyMove ==
  /\ now' \in {now, now + 1}
  /\ \/ denied' = denied
     \/ \E t \in Tokens, until \in Nat :
          /\ denied' = DenyAccessToken(t, until)
          /\ Issued(t) /\ refresh[t].aexp <= until /\ until > now
          /\ now' = now
  /\ \A r \in Requests : \A t \in req'[r].jtis : Issued(t)

\* A step that leaves both alone and collects no jti.
LEMMA NoDenial ==
  ASSUME DenyInv, UNCHANGED <<now, denied>>,
         \A s \in Requests : req'[s].jtis \subseteq req[s].jtis
  PROVE  DenyMove
BY Zenon DEF DenyMove, DenyInv

LEMMA DenyKinds ==
  ASSUME TypeInv, DenyInv, [Next]_vars
  PROVE  DenyMove
<1> USE DEF TypeInv, TypeOK
<1>1. CASE Tick
  BY <1>1, Zenon DEF Tick, DenyInv, DenyMove
<1>2. ASSUME NEW c \in Codes, NEW cl \in Clients, NEW sc \in SUBSET Scopes,
             NEW g \in GrantExpiries \cup {NoExpiry}, Authorize(c, cl, sc, g)
      PROVE  DenyMove
  BY <1>2, NoDenial, Zenon DEF Authorize
<1>3. ASSUME NEW r \in Requests, NEW c \in Codes, NEW cl \in Clients,
             NEW k \in Keys \cup {NoKey}, ExchangeConsume(r, c, cl, k)
      PROVE  DenyMove
  BY <1>3, NoDenial, ZenonT(60) DEF ExchangeConsume, MintCode, Idle
<1>4. ASSUME NEW r \in Requests, NEW c \in Codes, ExchangeReplay(r, c)
      PROVE  DenyMove
  BY <1>4, NoDenial, Zenon DEF ExchangeReplay, Idle
<1>5. ASSUME NEW r \in Requests, HandleCodeReplay(r)
      PROVE  DenyMove
  BY <1>5, Zenon DEF HandleCodeReplay, Idle, DenyInv, DenyMove, Live, Issued
<1>6. ASSUME NEW r \in Requests, NEW t \in Tokens, DenyReplayedJTI(r, t)
      PROVE  DenyMove
  <2>1. Issued(t) /\ refresh[t].aexp <= now + AccessTTL
    BY <1>6, Zenon DEF DenyReplayedJTI, DenyInv
  <2>2. \A s \in Requests : req'[s].jtis \subseteq req[s].jtis
    BY <1>6, Zenon DEF DenyReplayedJTI, Idle, Request
  <2>3. now + AccessTTL \in Nat /\ now + AccessTTL > now
    BY TimesAssumption
  <2>4. denied' = DenyAccessToken(t, now + AccessTTL) /\ now' = now
    BY <1>6, Zenon DEF DenyReplayedJTI
  <2> QED BY <2>1, <2>2, <2>3, <2>4, Zenon DEF DenyMove, DenyInv
<1>7. ASSUME NEW r \in Requests, NEW t \in Tokens, NEW cl \in Clients, NEW sc \in SUBSET Scopes,
             NEW k \in Keys \cup {NoKey}, RefreshRead(r, t, cl, sc, k)
      PROVE  DenyMove
  <2>1. /\ req' = [req EXCEPT ![r] = OnFamily("reuse", t)]
           \/ req' = [req EXCEPT ![r] = RotateToken(t, sc, k)]
        /\ UNCHANGED <<now, denied>>
    BY <1>7, Zenon DEF RefreshRead
  <2>2. OnFamily("reuse", t).jtis = {} /\ RotateToken(t, sc, k).jtis = {}
    BY Zenon DEF OnFamily, RotateToken, Idle
  <2> QED BY <2>1, <2>2, NoDenial, Zenon
<1>8. ASSUME NEW r \in Requests, Rotate(r)
      PROVE  DenyMove
  BY <1>8, NoDenial DEF Rotate, Request
<1>9. ASSUME NEW r \in Requests, RevokeFamily(r)
      PROVE  DenyMove
  BY <1>9, NoDenial, Zenon DEF RevokeFamily, Idle
<1>10. ASSUME NEW r \in Requests, NEW t \in Tokens, Mint(r, t)
       PROVE  DenyMove
  <2>1. /\ req'[r] = Idle /\ UNCHANGED <<now, denied>>
        /\ \A s \in Requests \ {r} : req'[s] = req[s]
    BY <1>10, MintEffect, Zenon
  <2>2. Idle.jtis = {}
    BY Zenon DEF Idle
  <2> HIDE DEF TypeInv, TypeOK
  <2>3. \A s \in Requests : req'[s].jtis \subseteq req[s].jtis
    BY <2>1, <2>2, Zenon
  <2> QED BY <2>1, <2>3, NoDenial, Zenon
<1>11. ASSUME NEW r \in Requests, NEW t \in Tokens, NEW cl \in Clients, RevokeToken(r, t, cl)
       PROVE  DenyMove
  BY <1>11, NoDenial, Zenon DEF RevokeToken, OnFamily, Idle
<1>12. ASSUME NEW t \in Tokens, NEW cl \in Clients, RevokeAccessToken(t, cl)
       PROVE  DenyMove
  <2>1. /\ now' = now /\ req' = req
        /\ denied' = DenyAccessToken(t, refresh[t].aexp)
        /\ Issued(t) /\ refresh[t].aexp > now
    BY <1>12, Zenon DEF RevokeAccessToken, RefreshRow
  <2>2. refresh[t].aexp \in Nat
    BY Zenon DEF RefreshRow
  <2>3. \A r \in Requests : \A u \in req'[r].jtis : Issued(u)
    BY <2>1, Zenon DEF DenyInv
  <2> HIDE DEF TypeInv, TypeOK
  <2>4. \E v \in Tokens, until \in Nat :
           /\ denied' = DenyAccessToken(v, until)
           /\ Issued(v) /\ refresh[v].aexp <= until /\ until > now
           /\ now' = now
    <3>1. refresh[t].aexp <= refresh[t].aexp
      BY <2>2
    <3> QED BY <2>1, <2>2, <3>1, Zenon
  <2> QED BY <2>1, <2>3, <2>4, Zenon DEF DenyMove
<1>13. ASSUME NEW r \in Requests, Abort(r)
       PROVE  DenyMove
  BY <1>13, NoDenial, Zenon DEF Abort, Idle
<1>14. CASE UNCHANGED vars
  BY <1>14, NoDenial, Zenon DEF vars
<1> QED
  BY <1>1, <1>2, <1>3, <1>4, <1>5, <1>6, <1>7, <1>8, <1>9, <1>10, <1>11, <1>12, <1>13, <1>14, SMTT(30)
  DEF Next

LEMMA DenyStep == TypeInv /\ DenyInv /\ [Next]_vars => DenyInv'
<1> SUFFICES ASSUME TypeInv, DenyInv, [Next]_vars
             PROVE  DenyInv'
  BY Zenon
<1>0. DenyMove
  BY DenyKinds, Zenon
<1>1. now \in Nat /\ AccessTTL \in Nat /\ \A t \in Tokens : refresh[t].aexp \in Nat /\ denied[t] \in Nat
  BY TimesAssumption, Zenon DEF TypeInv, TypeOK, RefreshRow
<1>2. \A t \in Tokens : Issued(t) => refresh'[t].aexp = refresh[t].aexp /\ Issued(t)'
  BY RowsKeepTerms, MintEffect, ZenonT(60) DEF SameTerms, TypeInv, Issued
<1>3. \A t \in Tokens : Issued(t)' => refresh'[t].aexp <= now' + AccessTTL
  <2>1. CASE \A t \in Tokens : SameTerms(t)
    <3>1. now' >= now /\ now' \in Nat
      BY <1>0, <1>1 DEF DenyMove
    <3>2. ASSUME NEW t \in Tokens, Issued(t)' PROVE refresh'[t].aexp <= now' + AccessTTL
      <4>1. refresh'[t].aexp = refresh[t].aexp /\ Issued(t)
        BY <2>1, <3>2, Zenon DEF SameTerms
      <4>2. refresh[t].aexp <= now + AccessTTL
        BY <4>1, Zenon DEF DenyInv
      <4>3. refresh[t].aexp <= now' + AccessTTL
        BY <1>1, <3>1, <4>2
      <4> QED BY <4>1, <4>3, Zenon
    <3> QED BY <3>2, Zenon
  <2>2. ASSUME NEW r \in Requests, NEW t \in Tokens, Mint(r, t)
        PROVE  \A u \in Tokens : Issued(u)' => refresh'[u].aexp <= now' + AccessTTL
    <3>1. CapExpiry(AccessTTL, req[r].gexp) <= now + AccessTTL
      <4>1. req[r].gexp \in Nat
        BY Zenon DEF TypeInv, TypeOK, Request
      <4> QED BY <1>1, <4>1 DEF CapExpiry
    <3>2. refresh'[t].aexp <= now + AccessTTL /\ now' = now
      BY <2>2, <3>1, MintEffect, Zenon DEF TypeInv
    <3>3. \A u \in Tokens \ {t} : refresh'[u] = refresh[u]
      BY <2>2, MintEffect, Zenon DEF TypeInv
    <3> QED BY <3>2, <3>3, Zenon DEF DenyInv, Issued
  <2> QED BY <2>1, <2>2, RowsKeepTerms, Zenon
<1>4. \A t \in Tokens : denied'[t] # 0 => Issued(t) /\ refresh[t].aexp <= denied'[t]
  BY <1>0, Zenon DEF DenyMove, DenyInv, DenyAccessToken
<1>5. \A r \in Requests : \A t \in req'[r].jtis : Issued(t)'
  <2>1. \A r \in Requests : req'[r].jtis \subseteq Tokens
    BY TypeStep, Zenon DEF TypeInv, TypeOK, Request
  <2> QED BY <1>0, <1>2, <2>1, Zenon DEF DenyMove
<1> QED BY <1>2, <1>3, <1>4, <1>5, Zenon DEF DenyInv

\* A denied access token stays denied until it has expired.
THEOREM DenialLasts == Spec => DeniedUntilExpired
<1>1. Init => TypeInv /\ DenyInv
  BY TypeInit, DenyInit, Zenon
<1>2. TypeInv /\ DenyInv /\ [Next]_vars => (TypeInv /\ DenyInv)'
  BY TypeStep, DenyStep, Zenon
<1>3. TypeInv /\ DenyInv /\ [Next]_vars
      => [\A t \in Tokens : Denied(t) => Denied(t)' \/ Expired(t)']_vars
  <2> SUFFICES ASSUME TypeInv, DenyInv, [Next]_vars, NEW t \in Tokens, Denied(t)
               PROVE  Denied(t)' \/ Expired(t)'
    BY Zenon
  <2>0. DenyMove
    BY DenyKinds, Zenon
  <2>1. now \in Nat /\ refresh[t].aexp \in Nat /\ denied[t] \in Nat
    BY Zenon DEF TypeInv, TypeOK, RefreshRow
  <2>2. Issued(t) /\ refresh[t].aexp <= denied[t]
    BY <2>1, SMTT(30) DEF DenyInv, Denied
  <2>3. refresh'[t].aexp = refresh[t].aexp
    BY <2>2, RowsKeepTerms, MintEffect, Zenon DEF SameTerms, TypeInv
  <2>4. CASE denied' = denied
    <3>1. now' \in {now, now + 1} /\ denied'[t] = denied[t]
      BY <2>0, <2>4, Zenon DEF DenyMove
    <3>2. denied[t] > now' \/ refresh[t].aexp <= now'
      BY <2>1, <2>2, <3>1
    <3> QED BY <2>3, <3>1, <3>2, Zenon DEF Denied, Expired
  <2>5. ASSUME NEW u \in Tokens, NEW until \in Nat, denied' = DenyAccessToken(u, until),
               until > now, now' = now
        PROVE  Denied(t)'
    BY <2>5, Zenon DEF DenyAccessToken, Denied
  <2> QED BY <2>0, <2>4, <2>5, Zenon DEF DenyMove
<1> QED BY <1>1, <1>2, <1>3, PTL DEF Spec, DeniedUntilExpired
=============================================================================
