----------------------------- MODULE TokenGrant -----------------------------
(***************************************************************************)
(* The authorization-code and refresh-token core of the authorization      *)
(* server (internal/as/token.go, revoke.go, hardening.go).  Every request  *)
(* runs in a goroutine of its own, and the only atomic steps are single    *)
(* storage calls, so a handler is split at each storage call that can      *)
(* change or observe shared state.                                         *)
(*                                                                         *)
(* A refresh token and the access token minted with it are one element of  *)
(* Tokens: the refresh row's ParentJTI is the access token's jti.  A       *)
(* rotation family is named by its first token, which stands for the fresh *)
(* ULID drawn by mintAccessAndRefresh.  The fields prev and aexp of a row   *)
(* and the variables of history record the past: no handler reads them     *)
(* (aexp is read only as the exp claim of the JWT itself).                 *)
(***************************************************************************)
EXTENDS Naturals, FiniteSets

CONSTANTS Codes, Tokens, Requests, Clients, Scopes, Keys,
          NoCode, NoToken, NoKey,
          CodeTTL, AccessTTL, RefreshTTL,  \* Config.AuthorizationCodeTTL, AccessTokenTTL, RefreshTokenTTL
          GrantExpiries,                   \* absolute expiries a consent decision may set
          DenylistOn,                      \* Config.AccessTokenRevocation
          MaxTime                          \* bound on the clock

ASSUME SentinelsAssumption ==
  /\ NoCode \notin Codes
  /\ NoToken \notin Tokens
  /\ NoKey \notin Keys

ASSUME ClientsAssumption == Clients # {}

ASSUME TimesAssumption ==
  /\ CodeTTL \in Nat \ {0}
  /\ AccessTTL \in Nat \ {0}
  /\ RefreshTTL \in Nat \ {0}
  /\ GrantExpiries \subseteq Nat \ {0}
  /\ MaxTime \in Nat

ASSUME DenylistAssumption == DenylistOn \in BOOLEAN

VARIABLES now,      \* the clock
          codes,    \* authorization code rows
          refresh,  \* refresh token rows
          denied,   \* the jti denylist: token -> expiry of its entry, 0 for none
          req,      \* what each in-flight request holds between two storage calls
          dead,     \* families revoked while none of their rotations was being minted
          spent     \* codes whose replay was handled while nothing of theirs was being minted

history == <<dead, spent>>

vars == <<now, codes, refresh, denied, req, history>>

-----------------------------------------------------------------------------
(* Rows and requests.                                                      *)

\* The zero time.Time: no grant expiry.
NoExpiry == 0

CodeRow == [state: {"absent", "live", "gone"}, client: Clients,
            scope: SUBSET Scopes, gexp: Nat, exp: Nat]

RefreshRow == [state: {"absent", "live", "revoked"}, fam: Tokens,
               prev: Tokens \cup {NoToken}, code: Codes \cup {NoCode},
               client: Clients, scope: SUBSET Scopes, jkt: Keys \cup {NoKey},
               gexp: Nat, exp: Nat, aexp: Nat]

Request == [pc: {"idle", "replay", "deny", "rotate", "mint", "reuse", "revoke"},
            code: Codes \cup {NoCode}, tok: Tokens \cup {NoToken},
            fam: Tokens \cup {NoToken}, client: Clients, scope: SUBSET Scopes,
            jkt: Keys \cup {NoKey}, gexp: Nat, jtis: SUBSET Tokens]

SomeClient == CHOOSE cl \in Clients : TRUE

Idle == [pc |-> "idle", code |-> NoCode, tok |-> NoToken, fam |-> NoToken,
         client |-> SomeClient, scope |-> {}, jkt |-> NoKey, gexp |-> NoExpiry,
         jtis |-> {}]

NoCodeRow == [state |-> "absent", client |-> SomeClient, scope |-> {},
              gexp |-> NoExpiry, exp |-> 0]

NoRefreshRow(t) == [state |-> "absent", fam |-> t, prev |-> NoToken,
                    code |-> NoCode, client |-> SomeClient, scope |-> {},
                    jkt |-> NoKey, gexp |-> NoExpiry, exp |-> 0, aexp |-> 0]

Issued(t) == refresh[t].state # "absent"
Live(t) == refresh[t].state = "live"
Minting(r) == req[r].pc = "mint"

\* What a request carries on: the terms of the consumed code, the terms of the
\* refresh token it read with the narrowed scope, or the family to revoke.
MintCode(c, k) ==
  [Idle EXCEPT !.pc = "mint", !.code = c, !.client = codes[c].client,
               !.scope = codes[c].scope, !.jkt = k, !.gexp = codes[c].gexp]

RotateToken(t, sc, k) ==
  [Idle EXCEPT !.pc = "rotate", !.tok = t, !.fam = refresh[t].fam,
               !.client = refresh[t].client, !.scope = sc, !.jkt = k,
               !.gexp = refresh[t].gexp]

OnFamily(pc, t) == [Idle EXCEPT !.pc = pc, !.fam = refresh[t].fam]

\* Mutant: the grant expiry is not applied.
CapExpiryIgnoringGrant(ttl, gexp) == now + ttl

\* The instant a token minted now expires: its TTL, capped by the grant expiry.
CapExpiry(ttl, gexp) ==
  IF gexp # NoExpiry /\ gexp < now + ttl THEN gexp ELSE now + ttl

-----------------------------------------------------------------------------
(* Storage operations that touch several rows at once.                     *)

\* Every live token of the families, marked revoked.
RevokeLive(fams) ==
  [t \in Tokens |-> IF Live(t) /\ refresh[t].fam \in fams
                    THEN [refresh[t] EXCEPT !.state = "revoked"]
                    ELSE refresh[t]]

\* The families that some token of the code started.
FamiliesOfCode(c) == {refresh[t].fam : t \in {u \in Tokens : Issued(u) /\ refresh[u].code = c}}

\* Mutant: the entry lapses one tick before the access token does.
DenyAccessTokenTooShort(t, until) ==
  [u \in Tokens |-> IF u = t THEN until - 1
                    ELSE IF denied[u] > now THEN denied[u] ELSE 0]

\* DenyAccessToken: drop lapsed entries, then record jti until the given time.
DenyAccessToken(t, until) ==
  [u \in Tokens |-> IF u = t THEN until
                    ELSE IF denied[u] > now THEN denied[u] ELSE 0]

\* No request holds a minted-but-not-inserted token of the family.
NoMintOf(f) == \A r \in Requests : ~(Minting(r) /\ req[r].fam = f)

-----------------------------------------------------------------------------
Init ==
  /\ now = 0
  /\ codes = [c \in Codes |-> NoCodeRow]
  /\ refresh = [t \in Tokens |-> NoRefreshRow(t)]
  /\ denied = [t \in Tokens |-> 0]
  /\ req = [r \in Requests |-> Idle]
  /\ dead = {}
  /\ spent = {}

Tick ==
  /\ now < MaxTime
  /\ now' = now + 1
  /\ UNCHANGED <<codes, refresh, denied, req, history>>

\* startAuthorize stores a fresh code for the scopes and expiry the user granted.
Authorize(c, cl, sc, g) ==
  /\ codes[c].state = "absent"
  /\ sc # {}
  /\ g = NoExpiry \/ g > now
  /\ codes' = [codes EXCEPT ![c] = [state |-> "live", client |-> cl, scope |-> sc,
                                    gexp |-> g, exp |-> now + CodeTTL]]
  /\ UNCHANGED <<now, refresh, denied, req, history>>

\* Mutant: the code is read, not consumed.
ExchangeWithoutConsume(r, c, cl, k) ==
  /\ req[r].pc = "idle"
  /\ codes[c].state = "live"
  /\ codes[c].client = cl
  /\ now < codes[c].exp
  /\ req' = [req EXCEPT ![r] = MintCode(c, k)]
  /\ UNCHANGED <<now, codes, refresh, denied, history>>

\* ExchangeAuthorizationCode up to the mint.  The consume comes first, so a
\* request that then fails a check (client, expiry, redirect_uri, PKCE,
\* resource, details, DPoP proof) has burned the code.
ExchangeConsume(r, c, cl, k) ==
  /\ req[r].pc = "idle"
  /\ codes[c].state = "live"
  /\ codes' = [codes EXCEPT ![c].state = "gone"]
  /\ \/ /\ codes[c].client = cl
        /\ now < codes[c].exp
        /\ req' = [req EXCEPT ![r] = MintCode(c, k)]
     \/ UNCHANGED req
  /\ UNCHANGED <<now, refresh, denied, history>>

\* The consume finds no row: the code may be a replay.
ExchangeReplay(r, c) ==
  /\ req[r].pc = "idle"
  /\ codes[c].state = "gone"
  /\ req' = [req EXCEPT ![r] = [Idle EXCEPT !.pc = "replay", !.code = c]]
  /\ UNCHANGED <<now, codes, refresh, denied, history>>

\* Mutant: only the token issued from the code is revoked, not its family.
HandleCodeReplayRootOnly(r) ==
  LET c   == req[r].code
      hit == {t \in Tokens : Live(t) /\ refresh[t].code = c}
  IN  /\ req[r].pc = "replay"
      /\ refresh' = [t \in Tokens |-> IF t \in hit THEN [refresh[t] EXCEPT !.state = "revoked"]
                                      ELSE refresh[t]]
      /\ req' = [req EXCEPT ![r] = IF DenylistOn /\ hit # {}
                                   THEN [Idle EXCEPT !.pc = "deny", !.code = c, !.jtis = hit]
                                   ELSE Idle]
      /\ spent' = IF /\ \A s \in Requests : ~(Minting(s) /\ req[s].code = c)
                     /\ \A f \in FamiliesOfCode(c) : NoMintOf(f)
                  THEN spent \cup {c}
                  ELSE spent
      /\ UNCHANGED <<now, codes, denied, dead>>

\* handleCodeReplay, first storage call: revoke the code's families and
\* collect the jtis of the tokens that were live.
HandleCodeReplay(r) ==
  LET c    == req[r].code
      fams == FamiliesOfCode(c)
      hit  == {t \in Tokens : Live(t) /\ refresh[t].fam \in fams}
  IN  /\ req[r].pc = "replay"
      /\ refresh' = RevokeLive(fams)
      /\ req' = [req EXCEPT ![r] = IF DenylistOn /\ hit # {}
                                   THEN [Idle EXCEPT !.pc = "deny", !.code = c, !.jtis = hit]
                                   ELSE Idle]
      /\ dead' = dead \cup {f \in fams : NoMintOf(f)}
      /\ spent' = IF /\ \A s \in Requests : ~(Minting(s) /\ req[s].code = c)
                     /\ \A f \in fams : NoMintOf(f)
                  THEN spent \cup {c}
                  ELSE spent
      /\ UNCHANGED <<now, codes, denied>>

\* handleCodeReplay, the denylist loop: one jti per storage call.
DenyReplayedJTI(r, t) ==
  /\ req[r].pc = "deny"
  /\ t \in req[r].jtis
  /\ denied' = DenyAccessToken(t, now + AccessTTL)
  /\ req' = [req EXCEPT ![r] = IF req[r].jtis = {t} THEN Idle
                               ELSE [req[r] EXCEPT !.jtis = @ \ {t}]]
  /\ UNCHANGED <<now, codes, refresh, history>>

\* Mutant: the requested scope is not compared with the granted one.
RefreshReadAnyScope(r, t, cl, sc, k) ==
  /\ req[r].pc = "idle"
  /\ Live(t)
  /\ refresh[t].client = cl
  /\ now < refresh[t].exp
  /\ sc # {}
  /\ refresh[t].jkt # NoKey => k = refresh[t].jkt
  /\ req' = [req EXCEPT ![r] = RotateToken(t, sc, k)]
  /\ UNCHANGED <<now, codes, refresh, denied, history>>

\* RefreshAccessToken up to the rotation: the row is read, and every check is
\* made on that copy.  A rejected request changes nothing.
RefreshRead(r, t, cl, sc, k) ==
  /\ req[r].pc = "idle"
  /\ Issued(t)
  /\ refresh[t].client = cl
  /\ \/ /\ refresh[t].state = "revoked"
        /\ req' = [req EXCEPT ![r] = OnFamily("reuse", t)]
     \/ /\ Live(t)
        /\ now < refresh[t].exp
        /\ sc # {} /\ sc \subseteq refresh[t].scope
        /\ refresh[t].jkt # NoKey => k = refresh[t].jkt
        /\ req' = [req EXCEPT ![r] = RotateToken(t, sc, k)]
  /\ UNCHANGED <<now, codes, refresh, denied, history>>

\* Mutant: the update is not conditional on the token being live.
RotateUnconditionally(r) ==
  /\ req[r].pc = "rotate"
  /\ refresh' = [refresh EXCEPT ![req[r].tok].state = "revoked"]
  /\ req' = [req EXCEPT ![r].pc = "mint"]
  /\ UNCHANGED <<now, codes, denied, history>>

\* RevokeRefreshToken(hash, "rotated"): the conditional update one rotation wins.
Rotate(r) ==
  /\ req[r].pc = "rotate"
  /\ \/ /\ Live(req[r].tok)
        /\ refresh' = [refresh EXCEPT ![req[r].tok].state = "revoked"]
        /\ req' = [req EXCEPT ![r].pc = "mint"]
     \/ /\ ~Live(req[r].tok)
        /\ req' = [req EXCEPT ![r].pc = "reuse"]
        /\ UNCHANGED refresh
  /\ UNCHANGED <<now, codes, denied, history>>

\* RevokeRefreshTokenFamily, after a reuse or for an explicit revoke.
RevokeFamily(r) ==
  LET f == req[r].fam
  IN  /\ req[r].pc \in {"reuse", "revoke"}
      /\ refresh' = RevokeLive({f})
      /\ req' = [req EXCEPT ![r] = Idle]
      /\ dead' = IF NoMintOf(f) THEN dead \cup {f} ELSE dead
      /\ UNCHANGED <<now, codes, denied, spent>>

\* mintAccessAndRefresh: both expiries are computed, then the row is inserted
\* in the family of the rotated token or in a fresh one.
Mint(r, t) ==
  /\ Minting(r)
  /\ ~Issued(t)
  /\ CapExpiry(AccessTTL, req[r].gexp) > now
  /\ refresh' = [refresh EXCEPT ![t] =
        [state |-> "live", fam |-> IF req[r].fam = NoToken THEN t ELSE req[r].fam,
         prev |-> req[r].tok, code |-> req[r].code, client |-> req[r].client,
         scope |-> req[r].scope, jkt |-> req[r].jkt, gexp |-> req[r].gexp,
         exp |-> CapExpiry(RefreshTTL, req[r].gexp),
         aexp |-> CapExpiry(AccessTTL, req[r].gexp)]]
  /\ req' = [req EXCEPT ![r] = Idle]
  /\ UNCHANGED <<now, codes, denied, history>>

\* RevokeToken for a refresh token: revokeRefreshFamily's lookup and client check.
RevokeToken(r, t, cl) ==
  /\ req[r].pc = "idle"
  /\ Issued(t)
  /\ refresh[t].client = cl
  /\ req' = [req EXCEPT ![r] = OnFamily("revoke", t)]
  /\ UNCHANGED <<now, codes, refresh, denied, history>>

\* RevokeToken for an access token: a verified, unexpired JWT of the client is
\* denied until its own exp.
RevokeAccessToken(t, cl) ==
  /\ DenylistOn
  /\ Issued(t)
  /\ refresh[t].client = cl
  /\ now < refresh[t].aexp
  /\ denied' = DenyAccessToken(t, refresh[t].aexp)
  /\ UNCHANGED <<now, codes, refresh, req, history>>

\* A crash, a cancelled context, a failing hook or a storage error ends the
\* request where it stands; the family revocation's error is dropped as well.
Abort(r) ==
  /\ req[r].pc # "idle"
  /\ req' = [req EXCEPT ![r] = Idle]
  /\ UNCHANGED <<now, codes, refresh, denied, history>>

Next ==
  \/ Tick
  \/ \E c \in Codes, cl \in Clients, sc \in SUBSET Scopes, g \in GrantExpiries \cup {NoExpiry} :
        Authorize(c, cl, sc, g)
  \/ \E r \in Requests, c \in Codes, cl \in Clients, k \in Keys \cup {NoKey} :
        ExchangeConsume(r, c, cl, k)
  \/ \E r \in Requests, c \in Codes : ExchangeReplay(r, c)
  \/ \E r \in Requests : HandleCodeReplay(r)
  \/ \E r \in Requests, t \in Tokens : DenyReplayedJTI(r, t)
  \/ \E r \in Requests, t \in Tokens, cl \in Clients, sc \in SUBSET Scopes, k \in Keys \cup {NoKey} :
        RefreshRead(r, t, cl, sc, k)
  \/ \E r \in Requests : Rotate(r)
  \/ \E r \in Requests : RevokeFamily(r)
  \/ \E r \in Requests, t \in Tokens : Mint(r, t)
  \/ \E r \in Requests, t \in Tokens, cl \in Clients : RevokeToken(r, t, cl)
  \/ \E t \in Tokens, cl \in Clients : RevokeAccessToken(t, cl)
  \/ \E r \in Requests : Abort(r)

Spec == Init /\ [][Next]_vars

-----------------------------------------------------------------------------
(* Properties.                                                             *)

\* Every variable keeps its type: rows, requests and the denylist as the storage
\* interfaces of internal/as/storage.go hold them.
TypeOK ==
  /\ now \in Nat
  /\ codes \in [Codes -> CodeRow]
  /\ refresh \in [Tokens -> RefreshRow]
  /\ denied \in [Tokens -> Nat]
  /\ req \in [Requests -> Request]
  /\ dead \subseteq Tokens
  /\ spent \subseteq Codes

\* However rotations, revocations, crashes and replays interleave, a family has
\* at most one live refresh token: the old row is revoked before the new pair is
\* issued, and one rotation wins the conditional update (token.go, RefreshAccessToken).
OneLivePerFamily ==
  \A t, u \in Tokens : Live(t) /\ Live(u) /\ refresh[t].fam = refresh[u].fam => t = u

\* An authorization code starts at most one family, and a refresh token has at
\* most one successor, even when requests presenting them run concurrently.
RedeemedOnce ==
  \A t, u \in Tokens : Issued(t) /\ Issued(u) =>
     /\ refresh[t].code # NoCode /\ refresh[t].code = refresh[u].code => t = u
     /\ refresh[t].prev # NoToken /\ refresh[t].prev = refresh[u].prev => t = u

\* Along a rotation the grant only narrows: same family, client and grant expiry,
\* no new scope, and a DPoP-bound token never becomes unbound or rebound.
RotationNarrowsGrant ==
  \A t \in Tokens : Issued(t) /\ refresh[t].prev # NoToken =>
     LET old == refresh[refresh[t].prev]
         new == refresh[t]
     IN  /\ old.state = "revoked"
         /\ new.fam = old.fam
         /\ new.client = old.client
         /\ new.gexp = old.gexp
         /\ new.scope \subseteq old.scope
         /\ old.jkt # NoKey => new.jkt = old.jkt

\* No token of a family, access or refresh, outlives the expiry that the consent
\* decision put on the family's first token, however often it is rotated.
GrantNeverOutlived ==
  \A t \in Tokens :
     LET g == refresh[refresh[t].fam].gexp
     IN  Issued(t) /\ g # NoExpiry => refresh[t].exp <= g /\ refresh[t].aexp <= g

\* A family revoked (reuse, explicit revoke or code replay) while none of its
\* rotations was between its conditional update and its insert never has a live
\* token again.
CleanRevocationIsFinal ==
  \A t \in Tokens : Issued(t) /\ refresh[t].fam \in dead => ~Live(t)

\* A code whose replay was handled while nothing issued from it was being minted
\* never backs a live refresh token again, directly or through rotations.
CleanReplayIsFinal ==
  \A c \in spent : \A t \in Tokens :
     Issued(t) /\ refresh[t].fam \in FamiliesOfCode(c) => ~Live(t)

\* An access token on the denylist stays rejected until it has expired: the entry
\* is never dropped or replaced by one that lapses before the token does
\* (denyAccessJTI, DenyAccessToken).
Denied(t) == denied[t] > now
Expired(t) == refresh[t].aexp <= now
DeniedUntilExpired ==
  [][\A t \in Tokens : Denied(t) => Denied(t)' \/ Expired(t)']_vars
=============================================================================
