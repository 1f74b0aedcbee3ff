---------------------------- MODULE OAuthGateway ----------------------------
(***************************************************************************)
(* The OAuth boundary of the reference gateway: oauth.mjs with the client  *)
(* assertions of cimd.mjs and the /mcp route of server.mjs.                *)
(*                                                                         *)
(* Everything the boundary knows is in Firestore, in documents that        *)
(* transactions read and write; a call of the token endpoint makes two of  *)
(* them, and a request for /mcp two reads.  Calls run side by side,        *)
(* replies get lost, clients send again what they sent before, documents   *)
(* expire, and the gateway may restart between any two steps, for another  *)
(* account perhaps.                                                        *)
(***************************************************************************)
EXTENDS Integers

CONSTANTS
    Client,      \* clients whose metadata document and keys check out
    Account,     \* accounts of the Firebase project
    Jti,         \* client assertions, by their jti
    Code, Family, Token,   \* the random names there are for documents
    Call,        \* calls of the token endpoint under way
    Request,     \* requests for /mcp under way
    None,
    MaxExpired,  \* bound: documents that expire
    MaxRestarts  \* bound: restarts of the gateway

ASSUME NoneAssumption ==
    None \notin Client \cup Account \cup Jti \cup Code \cup Family \cup Token
ASSUME NamesAssumption == Code \cap Token = {}
ASSUME BoundAssumption == MaxExpired \in Nat /\ MaxRestarts \in Nat

VARIABLES
    allowed,    \* the account the gateway is configured for
    cookie,     \* the client of the transaction in the browser's cookie
    codes, families, tokens, assertions,   \* the documents
    outdated,   \* assertions whose exp has passed
    calls, requests,
    expired, restarts,
    sent        \* history: how often each refresh token was sent, up to twice

docs == <<codes, families, tokens, assertions>>
vars == <<allowed, cookie, docs, outdated, calls, requests, expired, restarts, sent>>

(* The documents.  A token is a refresh token and the access token that was
   made with it; known: whether the client got it. *)
NoCode == [client |-> None, account |-> None, known |-> FALSE, used |-> FALSE, expired |-> FALSE]
NoFamily == [code |-> None, client |-> None, account |-> None, revoked |-> FALSE]
NoToken == [family |-> None, known |-> FALSE, used |-> FALSE, expired |-> FALSE, stale |-> FALSE]
Idle == [at |-> "idle", client |-> None, jti |-> None, with |-> None, gets |-> None]
NoRequest == [at |-> "idle", token |-> None, late |-> FALSE]

FamilyOf(n) == families[tokens[n].family]

-----------------------------------------------------------------------------
(* /oauth/authorize puts the transaction, sealed, into a cookie; the browser
   keeps the last one. *)
StartAuthorization(cl) ==
    /\ cookie' = cl
    /\ UNCHANGED <<allowed, docs, outdated, calls, requests, expired, restarts, sent>>

(* /oauth/firebase/complete: only the configured account gets a code.  The
   redirect may not reach the client, and the answer that takes the cookie
   away may reach the browser after it was used again. *)
CompleteAuthorization(account, c, known, kept) ==
    /\ cookie # None /\ account = allowed /\ codes[c] = NoCode
    /\ codes' = [codes EXCEPT ![c] = [NoCode EXCEPT !.client = cookie, !.account = account,
                                                    !.known = known]]
    /\ cookie' = IF kept THEN cookie ELSE None
    /\ UNCHANGED <<allowed, families, tokens, assertions, outdated, calls, requests, expired, restarts, sent>>

-----------------------------------------------------------------------------
(* /oauth/token.  A client may use one assertion for two calls, and sends
   codes and refresh tokens it was given as often as it likes.  An assertion
   whose exp has passed does not get through verifyCimdPrivateKeyJwt(). *)
Sends(k, cl, j, with) ==
    /\ calls[k] = Idle /\ j \notin outdated
    /\ calls' = [calls EXCEPT ![k] = [Idle EXCEPT !.at = "assertion", !.client = cl, !.jti = j,
                                                  !.with = with]]
    /\ UNCHANGED <<allowed, cookie, docs, outdated, requests, expired, restarts>>

SendCode(k, cl, j, c) ==
    codes[c].known /\ Sends(k, cl, j, c) /\ UNCHANGED sent

SendRefresh(k, cl, j, n) ==
    /\ tokens[n].known /\ Sends(k, cl, j, n)
    /\ sent' = [sent EXCEPT ![n] = IF @ = 0 THEN 1 ELSE 2]

Ends(k) == calls' = [calls EXCEPT ![k] = Idle]

(* The first transaction: an assertion is used up whatever comes of the call
   after it.  A record whose exp has passed does not count any more, so that a
   call that was verified before may use its assertion again. *)
ConsumeAssertion(k) ==
    /\ calls[k].at = "assertion"
    /\ IF calls[k].jti \in assertions \ outdated THEN Ends(k) ELSE calls' = [calls EXCEPT ![k].at = "grant"]
    /\ assertions' = assertions \cup {calls[k].jti}
    /\ UNCHANGED <<allowed, cookie, codes, families, tokens, outdated, requests, expired, restarts, sent>>

Replies(k, n) == calls' = [calls EXCEPT ![k].at = "reply", ![k].gets = n]
Fresh(f) == [NoToken EXCEPT !.family = f]

(* issueFromCode(), the second transaction of a call with a code. *)
CodeRefused(k, c) ==
    codes[c].used \/ codes[c].expired \/ codes[c].client # calls[k].client
        \/ codes[c].account # allowed

(* A mutant: the code is not marked as used. *)
SlipSpent(c) == codes

Spent(c) == [codes EXCEPT ![c].used = TRUE]

IssueFromCode(k, c, f, n) ==
    /\ calls[k].at = "grant" /\ calls[k].with = c
    /\ ~CodeRefused(k, c) /\ families[f] = NoFamily /\ tokens[n] = NoToken
    /\ codes' = Spent(c)
    /\ families' = [families EXCEPT ![f] = [code |-> c, client |-> codes[c].client,
                                            account |-> codes[c].account, revoked |-> FALSE]]
    /\ tokens' = [tokens EXCEPT ![n] = Fresh(f)]
    /\ Replies(k, n)
    /\ UNCHANGED <<allowed, cookie, assertions, outdated, requests, expired, restarts, sent>>

RefreshRefused(k, n) ==
    \/ tokens[n].expired
    \/ FamilyOf(n).client # calls[k].client \/ FamilyOf(n).account # allowed
    \/ FamilyOf(n).revoked

(* issueFromRefresh(): a token that was used before takes its family along;
   any other makes way for the next one. *)
Reused(k, n) ==
    /\ calls[k].at = "grant" /\ calls[k].with = n
    /\ ~RefreshRefused(k, n) /\ tokens[n].used
    /\ families' = [families EXCEPT ![tokens[n].family].revoked = TRUE]
    /\ Ends(k)
    /\ UNCHANGED <<allowed, cookie, codes, tokens, assertions, outdated, requests, expired, restarts, sent>>

(* A mutant: the next token is a copy of the record as it is now. *)
SlipRotated(n, next) ==
    [tokens EXCEPT ![n].used = TRUE, ![next] = [Fresh(tokens[n].family) EXCEPT !.used = TRUE]]

Rotated(n, next) == [tokens EXCEPT ![n].used = TRUE, ![next] = Fresh(tokens[n].family)]

Rotate(k, n, next) ==
    /\ calls[k].at = "grant" /\ calls[k].with = n
    /\ ~RefreshRefused(k, n) /\ ~tokens[n].used /\ tokens[next] = NoToken
    /\ tokens' = Rotated(n, next)
    /\ Replies(k, next)
    /\ UNCHANGED <<allowed, cookie, codes, families, assertions, outdated, requests, expired, restarts, sent>>

Refused(k) ==
    /\ calls[k].at = "grant"
    /\ \/ calls[k].with \in Code /\ CodeRefused(k, calls[k].with)
       \/ calls[k].with \in Token /\ RefreshRefused(k, calls[k].with)
    /\ Ends(k)
    /\ UNCHANGED <<allowed, cookie, docs, outdated, requests, expired, restarts, sent>>

Reply(k) ==
    /\ calls[k].at = "reply"
    /\ tokens' = [tokens EXCEPT ![calls[k].gets].known = TRUE]
    /\ Ends(k)
    /\ UNCHANGED <<allowed, cookie, codes, families, assertions, outdated, requests, expired, restarts, sent>>

(* The connection of a call is lost, or it is refused for its verifier, redirect
   URI, resource or scope; a transaction that was made stays made. *)
Lose(k) ==
    /\ calls[k] # Idle
    /\ Ends(k)
    /\ UNCHANGED <<allowed, cookie, docs, outdated, requests, expired, restarts, sent>>

-----------------------------------------------------------------------------
(* authorizePublicMcp(): the document of the access token is read, then that
   of its family.  late: whether the family was revoked already. *)
ReadAccess(r, n) ==
    /\ requests[r].at = "idle" /\ tokens[n].known
    /\ ~tokens[n].stale /\ FamilyOf(n).account = allowed
    /\ requests' = [requests EXCEPT ![r] = [at |-> "family", token |-> n, late |-> FamilyOf(n).revoked]]
    /\ UNCHANGED <<allowed, cookie, docs, outdated, calls, expired, restarts, sent>>

(* A mutant: the family is not looked at again. *)
SlipFamilyGood(n) == FamilyOf(n).account = allowed

FamilyGood(n) == ~FamilyOf(n).revoked

ReadFamily(r) ==
    /\ requests[r].at = "family"
    /\ requests' = [requests EXCEPT ![r].at = IF FamilyGood(requests[r].token) THEN "admitted"
                                               ELSE "refused"]
    /\ UNCHANGED <<allowed, cookie, docs, outdated, calls, expired, restarts, sent>>

Answer(r) ==
    /\ requests[r].at \in {"admitted", "refused"}
    /\ requests' = [requests EXCEPT ![r] = NoRequest]
    /\ UNCHANGED <<allowed, cookie, docs, outdated, calls, expired, restarts, sent>>

-----------------------------------------------------------------------------
ExpireCode(c) ==
    /\ expired < MaxExpired /\ codes[c] # NoCode /\ ~codes[c].expired
    /\ codes' = [codes EXCEPT ![c].expired = TRUE]
    /\ expired' = expired + 1
    /\ UNCHANGED <<allowed, cookie, families, tokens, assertions, outdated, calls, requests, restarts, sent>>

ExpireAssertion(j) ==
    /\ expired < MaxExpired /\ j \notin outdated
    /\ outdated' = outdated \cup {j}
    /\ expired' = expired + 1
    /\ UNCHANGED <<allowed, cookie, docs, calls, requests, restarts, sent>>

(* An access token lives an hour, a refresh token thirty days. *)
ExpireToken(n) ==
    /\ expired < MaxExpired /\ tokens[n] # NoToken /\ ~tokens[n].expired
    /\ tokens' = [tokens EXCEPT ![n].stale = TRUE, ![n].expired = tokens[n].stale]
    /\ expired' = expired + 1
    /\ UNCHANGED <<allowed, cookie, codes, families, assertions, outdated, calls, requests, restarts, sent>>

(* A restart ends what is under way; the documents stay. *)
Restart(account) ==
    /\ restarts < MaxRestarts
    /\ restarts' = restarts + 1
    /\ allowed' = account
    /\ calls' = [k \in Call |-> Idle]
    /\ requests' = [r \in Request |-> NoRequest]
    /\ UNCHANGED <<cookie, docs, outdated, expired, sent>>

Init ==
    /\ allowed \in Account
    /\ cookie = None
    /\ codes = [c \in Code |-> NoCode]
    /\ families = [f \in Family |-> NoFamily]
    /\ tokens = [n \in Token |-> NoToken]
    /\ assertions = {} /\ outdated = {}
    /\ calls = [k \in Call |-> Idle]
    /\ requests = [r \in Request |-> NoRequest]
    /\ expired = 0 /\ restarts = 0
    /\ sent = [n \in Token |-> 0]

Authorization ==
    \/ \E cl \in Client : StartAuthorization(cl)
    \/ \E account \in Account, c \in Code, known, kept \in BOOLEAN :
          CompleteAuthorization(account, c, known, kept)

TokenEndpoint ==
    \E k \in Call :
        \/ \E cl \in Client, j \in Jti : \/ \E c \in Code : SendCode(k, cl, j, c)
                                        \/ \E n \in Token : SendRefresh(k, cl, j, n)
        \/ ConsumeAssertion(k)
        \/ \E c \in Code, f \in Family, n \in Token : IssueFromCode(k, c, f, n)
        \/ \E n \in Token : Reused(k, n) \/ \E next \in Token : Rotate(k, n, next)
        \/ Refused(k) \/ Reply(k) \/ Lose(k)

McpRoute ==
    \E r \in Request : (\E n \in Token : ReadAccess(r, n)) \/ ReadFamily(r) \/ Answer(r)

Next ==
    \/ Authorization \/ TokenEndpoint \/ McpRoute
    \/ \E c \in Code : ExpireCode(c)
    \/ \E n \in Token : ExpireToken(n)
    \/ \E j \in Jti : ExpireAssertion(j)
    \/ \E account \in Account : Restart(account)

Spec == Init /\ [][Next]_vars

-----------------------------------------------------------------------------
TypeOK ==
    /\ allowed \in Account /\ cookie \in Client \cup {None}
    /\ codes \in [Code -> [client : Client \cup {None}, account : Account \cup {None},
                           known : BOOLEAN, used : BOOLEAN, expired : BOOLEAN]]
    /\ families \in [Family -> [code : Code \cup {None}, client : Client \cup {None},
                                account : Account \cup {None}, revoked : BOOLEAN]]
    /\ tokens \in [Token -> [family : Family \cup {None}, known : BOOLEAN, used : BOOLEAN,
                             expired : BOOLEAN, stale : BOOLEAN]]
    /\ assertions \subseteq Jti /\ outdated \subseteq Jti
    /\ calls \in [Call -> [at : {"idle", "assertion", "grant", "reply"}, client : Client \cup {None},
                           jti : Jti \cup {None}, with : Code \cup Token \cup {None},
                           gets : Token \cup {None}]]
    /\ requests \in [Request -> [at : {"idle", "family", "admitted", "refused"},
                                 token : Token \cup {None}, late : BOOLEAN]]
    /\ sent \in [Token -> 0 .. 2]

(* One line of tokens comes of one consent: a code makes one family, and a
   family has one refresh token that was not used, however many calls send
   the same code or the same token at a time, and whatever replies are lost. *)
OneSuccessor ==
    /\ \A f, g \in Family : families[f] # NoFamily /\ families[f].code = families[g].code => f = g
    /\ \A m, n \in Token :
          tokens[m] # NoToken /\ tokens[m].family = tokens[n].family /\ ~tokens[m].used
            /\ ~tokens[n].used => m = n

(* A client is cut off only if it sent a refresh token twice: neither expiry
   nor restarts, other clients, lost calls or refused assertions revoke a
   family. *)
SessionKept ==
    \A f \in Family : families[f].revoked =>
        \E n \in Token : tokens[n].family = f /\ sent[n] = 2

(* A request that begins after the family of its token was revoked is not
   admitted, nor is one whose token is for another account than the gateway
   is configured for now. *)
RevokedStaysOut ==
    [][\A r \in Request :
          requests[r].at = "family" /\ requests'[r].at = "admitted"
            => ~requests[r].late /\ FamilyOf(requests[r].token).account = allowed']_vars

=============================================================================
