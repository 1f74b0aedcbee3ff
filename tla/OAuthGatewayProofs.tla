-------------------------- MODULE OAuthGatewayProofs --------------------------
(***************************************************************************)
(* Proofs about OAuthGateway, for every number of clients, accounts,       *)
(* codes, families, tokens, calls and requests, and without a bound on     *)
(* what expires or how often the gateway restarts.                         *)
(*                                                                         *)
(* The invariant ties each document to the ones it was made from: a family *)
(* to a code that is used (Consents), a token to a family (Lines), a call  *)
(* or request under way to a token that exists (Grounded).  Counted says   *)
(* that whoever is about to present a used token is not the first to send  *)
(* it, and Watched what a request knows between its two reads.             *)
(***************************************************************************)
EXTENDS OAuthGateway, TLAPS

Made(n) == tokens[n].family \in Family /\ families[tokens[n].family] # NoFamily

Consents ==
    /\ \A f \in Family : families[f] # NoFamily =>
            families[f].code \in Code /\ codes[families[f].code].used
    /\ \A f, g \in Family :
            families[f] # NoFamily /\ families[f].code = families[g].code => f = g

Lines ==
    /\ \A n \in Token : tokens[n] # NoToken => Made(n)
    /\ \A m, n \in Token :
          tokens[m] # NoToken /\ tokens[m].family = tokens[n].family /\ ~tokens[m].used
            /\ ~tokens[n].used => m = n

Presenting(k, n) == calls[k].at \in {"assertion", "grant"} /\ calls[k].with = n

Grounded ==
    /\ \A k \in Call : calls[k].at # "idle" =>
            calls[k].with \in Code \cup Token /\ calls[k].jti \in Jti
    /\ \A k \in Call, n \in Token : Presenting(k, n) => tokens[n] # NoToken
    /\ \A k \in Call : calls[k].at = "reply" =>
            calls[k].gets \in Token /\ tokens[calls[k].gets] # NoToken

Counted ==
    /\ \A n \in Token : tokens[n].used => sent[n] # 0
    /\ \A k \in Call, n \in Token : Presenting(k, n) => sent[n] # 0
    /\ \A k \in Call, n \in Token : Presenting(k, n) /\ tokens[n].used => sent[n] = 2
    /\ \A j, k \in Call, n \in Token :
            Presenting(j, n) /\ Presenting(k, n) /\ j # k => sent[n] = 2

Watched ==
    \A r \in Request : requests[r].at = "family" =>
        /\ requests[r].token \in Token /\ tokens[requests[r].token] # NoToken
        /\ FamilyOf(requests[r].token).account = allowed
        /\ requests[r].late => FamilyOf(requests[r].token).revoked

GatewayInv == TypeOK /\ Consents /\ Lines /\ Grounded /\ Counted /\ SessionKept /\ Watched

-----------------------------------------------------------------------------
LEMMA InitInv == Init => GatewayInv
<1> SUFFICES ASSUME Init PROVE GatewayInv
  OBVIOUS
<1>1. TypeOK
  BY DEF Init, TypeOK, NoCode, NoFamily, NoToken, Idle, NoRequest
<1>2. Consents /\ Lines /\ Grounded /\ Counted /\ SessionKept /\ Watched
  BY DEF Init, Consents, Lines, Made, Presenting, Grounded, Counted, SessionKept, Watched,
         NoCode, NoFamily, NoToken, Idle, NoRequest
<1> QED
  BY <1>1, <1>2 DEF GatewayInv

LEMMA RouteKeeps == McpRoute => UNCHANGED <<cookie, docs, outdated>>
<1>1. ASSUME NEW r \in Request, NEW n \in Token, ReadAccess(r, n)
      PROVE  UNCHANGED <<cookie, docs, outdated>>
  BY <1>1 DEF ReadAccess
<1>2. ASSUME NEW r \in Request, ReadFamily(r) \/ Answer(r)
      PROVE  UNCHANGED <<cookie, docs, outdated>>
  BY <1>2 DEF ReadFamily, Answer
<1> QED
  BY <1>1, <1>2 DEF McpRoute

(* Which steps change which of the variables. *)
LEMMA CodeMoves ==
    ASSUME [Next]_vars
    PROVE  \/ UNCHANGED codes
           \/ \E account \in Account, c \in Code, known, kept \in BOOLEAN :
                 CompleteAuthorization(account, c, known, kept)
           \/ \E k \in Call, c \in Code, f \in Family, n \in Token : IssueFromCode(k, c, f, n)
           \/ \E c \in Code : ExpireCode(c)
<1>1. CASE TokenEndpoint
  <2>1. ASSUME NEW k \in Call, NEW cl \in Client, NEW j \in Jti, NEW with, Sends(k, cl, j, with)
        PROVE  UNCHANGED codes
    BY <2>1 DEF Sends, docs
  <2>2. ASSUME NEW k \in Call, NEW n \in Token, NEW next \in Token,
               Reused(k, n) \/ Rotate(k, n, next)
        PROVE  UNCHANGED codes
    BY <2>2 DEF Reused, Rotate
  <2>3. ASSUME NEW k \in Call, ConsumeAssertion(k) \/ Refused(k) \/ Reply(k) \/ Lose(k)
        PROVE  UNCHANGED codes
    BY <2>3 DEF ConsumeAssertion, Refused, Reply, Lose, docs
  <2> QED
    BY <1>1, <2>1, <2>2, <2>3 DEF TokenEndpoint, SendCode, SendRefresh
<1>2. CASE McpRoute
  BY <1>2, RouteKeeps DEF docs
<1>3. CASE ~TokenEndpoint /\ ~McpRoute
  BY <1>3 DEF Next, Authorization, StartAuthorization, ExpireToken, ExpireAssertion, Restart,
         docs, vars
<1> QED
  BY <1>1, <1>2, <1>3

LEMMA FamilyMoves ==
    ASSUME [Next]_vars
    PROVE  \/ UNCHANGED families
           \/ \E k \in Call, c \in Code, f \in Family, n \in Token : IssueFromCode(k, c, f, n)
           \/ \E k \in Call, n \in Token : Reused(k, n)
<1>1. CASE TokenEndpoint
  <2>1. ASSUME NEW k \in Call, NEW cl \in Client, NEW j \in Jti, NEW with, Sends(k, cl, j, with)
        PROVE  UNCHANGED families
    BY <2>1 DEF Sends, docs
  <2>2. ASSUME NEW k \in Call, NEW n \in Token, NEW next \in Token, Rotate(k, n, next)
        PROVE  UNCHANGED families
    BY <2>2 DEF Rotate
  <2>3. ASSUME NEW k \in Call, ConsumeAssertion(k) \/ Refused(k) \/ Reply(k) \/ Lose(k)
        PROVE  UNCHANGED families
    BY <2>3 DEF ConsumeAssertion, Refused, Reply, Lose, docs
  <2> QED
    BY <1>1, <2>1, <2>2, <2>3 DEF TokenEndpoint, SendCode, SendRefresh
<1>2. CASE McpRoute
  BY <1>2, RouteKeeps DEF docs
<1>3. CASE ~TokenEndpoint /\ ~McpRoute
  BY <1>3 DEF Next, Authorization, StartAuthorization, CompleteAuthorization, ExpireCode,
         ExpireToken, ExpireAssertion, Restart, docs, vars
<1> QED
  BY <1>1, <1>2, <1>3

LEMMA TokenMoves ==
    ASSUME [Next]_vars
    PROVE  \/ UNCHANGED tokens
           \/ \E k \in Call, c \in Code, f \in Family, n \in Token : IssueFromCode(k, c, f, n)
           \/ \E k \in Call, n, next \in Token : Rotate(k, n, next)
           \/ \E k \in Call : Reply(k)
           \/ \E n \in Token : ExpireToken(n)
<1>1. CASE TokenEndpoint
  <2>1. ASSUME NEW k \in Call, NEW cl \in Client, NEW j \in Jti, NEW with, Sends(k, cl, j, with)
        PROVE  UNCHANGED tokens
    BY <2>1 DEF Sends, docs
  <2>2. ASSUME NEW k \in Call, NEW n \in Token, Reused(k, n)
        PROVE  UNCHANGED tokens
    BY <2>2 DEF Reused
  <2>3. ASSUME NEW k \in Call, ConsumeAssertion(k) \/ Refused(k) \/ Lose(k)
        PROVE  UNCHANGED tokens
    BY <2>3 DEF ConsumeAssertion, Refused, Lose, docs
  <2> QED
    BY <1>1, <2>1, <2>2, <2>3 DEF TokenEndpoint, SendCode, SendRefresh
<1>2. CASE McpRoute
  BY <1>2, RouteKeeps DEF docs
<1>3. CASE ~TokenEndpoint /\ ~McpRoute
  BY <1>3 DEF Next, Authorization, StartAuthorization, CompleteAuthorization, ExpireCode,
         ExpireAssertion, Restart, docs, vars
<1> QED
  BY <1>1, <1>2, <1>3

LEMMA CallMoves ==
    ASSUME [Next]_vars
    PROVE  \/ UNCHANGED <<calls, sent>>
           \/ \E k \in Call, cl \in Client, j \in Jti, c \in Code : SendCode(k, cl, j, c)
           \/ \E k \in Call, cl \in Client, j \in Jti, n \in Token : SendRefresh(k, cl, j, n)
           \/ \E k \in Call : ConsumeAssertion(k) \/ Refused(k) \/ Reply(k) \/ Lose(k)
           \/ \E k \in Call, c \in Code, f \in Family, n \in Token : IssueFromCode(k, c, f, n)
           \/ \E k \in Call, n \in Token : Reused(k, n)
           \/ \E k \in Call, n, next \in Token : Rotate(k, n, next)
           \/ \E account \in Account : Restart(account)
  BY DEF Next, Authorization, TokenEndpoint, McpRoute, StartAuthorization, CompleteAuthorization,
         ReadAccess, ReadFamily, Answer, ExpireCode, ExpireToken, ExpireAssertion, docs, vars

(* What comes of the calls, whichever transaction it was. *)
LEMMA CallOutcomes ==
    ASSUME [Next]_vars
    PROVE  \/ UNCHANGED <<calls, sent>>
           \/ \E k \in Call, cl \in Client, j \in Jti, c \in Code : SendCode(k, cl, j, c)
           \/ \E k \in Call, cl \in Client, j \in Jti, n \in Token : SendRefresh(k, cl, j, n)
           \/ \E k \in Call : ConsumeAssertion(k) \/ Ends(k)
           \/ \E k \in Call, n \in Token : calls[k].at = "grant" /\ Replies(k, n)
           \/ \E account \in Account : Restart(account)
<1>1. ASSUME NEW k \in Call, NEW c \in Code, NEW f \in Family, NEW n \in Token,
             IssueFromCode(k, c, f, n)
      PROVE  calls[k].at = "grant" /\ Replies(k, n)
  BY <1>1 DEF IssueFromCode
<1>2. ASSUME NEW k \in Call, NEW n \in Token, Reused(k, n)
      PROVE  Ends(k)
  BY <1>2 DEF Reused
<1>3. ASSUME NEW k \in Call, NEW n \in Token, NEW next \in Token, Rotate(k, n, next)
      PROVE  calls[k].at = "grant" /\ Replies(k, next)
  BY <1>3 DEF Rotate
<1>4. ASSUME NEW k \in Call, Refused(k) \/ Reply(k) \/ Lose(k)
      PROVE  Ends(k)
  BY <1>4 DEF Refused, Reply, Lose
<1> QED
  BY <1>1, <1>2, <1>3, <1>4, CallMoves

LEMMA EndpointKeeps == TokenEndpoint => UNCHANGED <<requests, allowed, cookie, outdated>>
<1> SUFFICES ASSUME TokenEndpoint
             PROVE  UNCHANGED <<requests, allowed, cookie, outdated>>
  OBVIOUS
<1>1. ASSUME NEW k \in Call, NEW cl \in Client, NEW j \in Jti, NEW with, Sends(k, cl, j, with)
      PROVE  UNCHANGED <<requests, allowed, cookie, outdated>>
  BY <1>1 DEF Sends
<1>2. ASSUME NEW k \in Call, NEW n \in Token, NEW next \in Token,
             Reused(k, n) \/ Rotate(k, n, next)
      PROVE  UNCHANGED <<requests, allowed, cookie, outdated>>
  BY <1>2 DEF Reused, Rotate
<1>3. ASSUME NEW k \in Call, NEW c \in Code, NEW f \in Family, NEW n \in Token,
             IssueFromCode(k, c, f, n)
      PROVE  UNCHANGED <<requests, allowed, cookie, outdated>>
  BY <1>3 DEF IssueFromCode
<1>4. ASSUME NEW k \in Call, ConsumeAssertion(k) \/ Refused(k) \/ Reply(k) \/ Lose(k)
      PROVE  UNCHANGED <<requests, allowed, cookie, outdated>>
  BY <1>4 DEF ConsumeAssertion, Refused, Reply, Lose
<1> QED
  BY <1>1, <1>2, <1>3, <1>4 DEF TokenEndpoint, SendCode, SendRefresh

LEMMA RequestMoves ==
    ASSUME [Next]_vars
    PROVE  \/ UNCHANGED <<requests, allowed>>
           \/ \E r \in Request, n \in Token : ReadAccess(r, n)
           \/ \E r \in Request : ReadFamily(r) \/ Answer(r)
           \/ \E account \in Account : Restart(account)
<1>1. CASE TokenEndpoint
  BY <1>1, EndpointKeeps
<1>2. CASE McpRoute
  BY <1>2 DEF McpRoute
<1>3. CASE ~TokenEndpoint /\ ~McpRoute
  BY <1>3 DEF Next, Authorization, StartAuthorization, CompleteAuthorization, ExpireCode,
              ExpireToken, ExpireAssertion, docs, vars
<1> QED
  BY <1>1, <1>2, <1>3

LEMMA CookieMoves ==
    ASSUME [Next]_vars
    PROVE  UNCHANGED cookie \/ cookie' = None \/ \E cl \in Client : StartAuthorization(cl)
<1>1. CASE TokenEndpoint \/ McpRoute
  BY <1>1, EndpointKeeps, RouteKeeps
<1>2. ASSUME NEW account \in Account, NEW c \in Code, NEW known \in BOOLEAN,
             NEW kept \in BOOLEAN, CompleteAuthorization(account, c, known, kept)
      PROVE  UNCHANGED cookie \/ cookie' = None
  BY <1>2 DEF CompleteAuthorization
<1>3. CASE Authorization
  BY <1>2, <1>3 DEF Authorization
<1>4. CASE ~(TokenEndpoint \/ McpRoute \/ Authorization)
  BY <1>4 DEF Next, ExpireCode, ExpireToken, ExpireAssertion, Restart, docs, vars
<1> QED
  BY <1>1, <1>3, <1>4

LEMMA AssertionMoves ==
    ASSUME [Next]_vars
    PROVE  \/ UNCHANGED <<assertions, outdated>>
           \/ \E k \in Call : ConsumeAssertion(k)
           \/ \E j \in Jti : ExpireAssertion(j)
<1>1. CASE TokenEndpoint
  <2>1. ASSUME NEW k \in Call, NEW cl \in Client, NEW j \in Jti, NEW with,
               Sends(k, cl, j, with)
        PROVE  UNCHANGED assertions
    BY <2>1 DEF Sends, docs
  <2>2. ASSUME NEW k \in Call, NEW n \in Token, NEW next \in Token,
               Reused(k, n) \/ Rotate(k, n, next)
        PROVE  UNCHANGED assertions
    BY <2>2 DEF Reused, Rotate
  <2>3. ASSUME NEW k \in Call, NEW c \in Code, NEW f \in Family, NEW n \in Token,
               IssueFromCode(k, c, f, n)
        PROVE  UNCHANGED assertions
    BY <2>3 DEF IssueFromCode
  <2>4. ASSUME NEW k \in Call, Refused(k) \/ Reply(k) \/ Lose(k)
        PROVE  UNCHANGED assertions
    BY <2>4 DEF Refused, Reply, Lose, docs
  <2>5. UNCHANGED assertions \/ \E k \in Call : ConsumeAssertion(k)
    BY <1>1, <2>1, <2>2, <2>3, <2>4 DEF TokenEndpoint, SendCode, SendRefresh
  <2> QED
    BY <1>1, <2>5, EndpointKeeps
<1>2. CASE McpRoute
  BY <1>2, RouteKeeps DEF docs
<1>3. CASE ~TokenEndpoint /\ ~McpRoute
  BY <1>3 DEF Next, Authorization, StartAuthorization, CompleteAuthorization, ExpireCode,
              ExpireToken, Restart, docs, vars
<1> QED
  BY <1>1, <1>2, <1>3

-----------------------------------------------------------------------------
CodeType == [client : Client \cup {None}, account : Account \cup {None}, known : BOOLEAN,
             used : BOOLEAN, expired : BOOLEAN]
FamilyType == [code : Code \cup {None}, client : Client \cup {None},
               account : Account \cup {None}, revoked : BOOLEAN]
TokenType == [family : Family \cup {None}, known : BOOLEAN, used : BOOLEAN, expired : BOOLEAN,
              stale : BOOLEAN]
CallType == [at : {"idle", "assertion", "grant", "reply"}, client : Client \cup {None},
             jti : Jti \cup {None}, with : Code \cup Token \cup {None}, gets : Token \cup {None}]
RequestType == [at : {"idle", "family", "admitted", "refused"}, token : Token \cup {None},
                late : BOOLEAN]

LEMMA CodeTypeStep ==
    ASSUME codes \in [Code -> CodeType], cookie \in Client \cup {None}, [Next]_vars
    PROVE  codes' \in [Code -> CodeType]
<1>1. ASSUME NEW account \in Account, NEW c \in Code, NEW known \in BOOLEAN, NEW kept \in BOOLEAN,
             CompleteAuthorization(account, c, known, kept)
      PROVE  codes' \in [Code -> CodeType]
  <2>1. [NoCode EXCEPT !.client = cookie, !.account = account, !.known = known] \in CodeType
    BY DEF NoCode, CodeType
  <2> QED
    BY <1>1, <2>1 DEF CompleteAuthorization
<1>2. ASSUME NEW k \in Call, NEW c \in Code, NEW f \in Family, NEW n \in Token,
             IssueFromCode(k, c, f, n)
      PROVE  codes' \in [Code -> CodeType]
  <2>1. codes' = [codes EXCEPT ![c].used = TRUE]
    BY <1>2 DEF IssueFromCode, Spent
  <2> QED
    BY <2>1 DEF CodeType
<1>3. ASSUME NEW c \in Code, ExpireCode(c)
      PROVE  codes' \in [Code -> CodeType]
  BY <1>3 DEF ExpireCode, CodeType
<1> QED
  BY <1>1, <1>2, <1>3, CodeMoves

LEMMA FamilyTypeStep ==
    ASSUME families \in [Family -> FamilyType], codes \in [Code -> CodeType], [Next]_vars
    PROVE  families' \in [Family -> FamilyType]
<1>1. ASSUME NEW k \in Call, NEW c \in Code, NEW f \in Family, NEW n \in Token,
             IssueFromCode(k, c, f, n)
      PROVE  families' \in [Family -> FamilyType]
  BY <1>1 DEF IssueFromCode, FamilyType, CodeType
<1>2. ASSUME NEW k \in Call, NEW n \in Token, Reused(k, n)
      PROVE  families' \in [Family -> FamilyType]
  <2>1. families' = [families EXCEPT ![tokens[n].family].revoked = TRUE]
    BY <1>2 DEF Reused
  <2> QED
    BY <2>1 DEF FamilyType
<1> QED
  BY <1>1, <1>2, FamilyMoves

LEMMA TokenTypeStep ==
    ASSUME tokens \in [Token -> TokenType], [Next]_vars
    PROVE  tokens' \in [Token -> TokenType]
<1>1. ASSUME NEW f \in Family \cup {None}
      PROVE  Fresh(f) \in TokenType
  BY DEF Fresh, NoToken, TokenType
<1>2. ASSUME NEW k \in Call, NEW c \in Code, NEW f \in Family, NEW n \in Token,
             IssueFromCode(k, c, f, n)
      PROVE  tokens' \in [Token -> TokenType]
  BY <1>1, <1>2 DEF IssueFromCode
<1>3. ASSUME NEW k \in Call, NEW n \in Token, NEW next \in Token, Rotate(k, n, next)
      PROVE  tokens' \in [Token -> TokenType]
  <2>1. tokens[n].family \in Family \cup {None}
    BY DEF TokenType
  <2>2. [tokens EXCEPT ![n].used = TRUE] \in [Token -> TokenType]
    BY DEF TokenType
  <2> QED
    BY <1>1, <1>3, <2>1, <2>2 DEF Rotate, Rotated
<1>4. ASSUME NEW k \in Call, Reply(k)
      PROVE  tokens' \in [Token -> TokenType]
  BY <1>4 DEF Reply, TokenType
<1>5. ASSUME NEW n \in Token, ExpireToken(n)
      PROVE  tokens' \in [Token -> TokenType]
  BY <1>5 DEF ExpireToken, TokenType
<1> QED
  BY <1>2, <1>3, <1>4, <1>5, TokenMoves

LEMMA CallTypeStep ==
    ASSUME calls \in [Call -> CallType], sent \in [Token -> 0 .. 2], [Next]_vars
    PROVE  calls' \in [Call -> CallType] /\ sent' \in [Token -> 0 .. 2]
<1> DEFINE Good == calls' \in [Call -> CallType] /\ sent' \in [Token -> 0 .. 2]
<1>1. Idle \in CallType
  BY DEF Idle, CallType
<1>2. ASSUME NEW k \in Call, NEW cl \in Client, NEW j \in Jti, NEW with \in Code \cup Token,
             Sends(k, cl, j, with)
      PROVE  calls' \in [Call -> CallType]
  BY <1>2 DEF Sends, Idle, CallType
<1>3. ASSUME NEW k \in Call, NEW cl \in Client, NEW j \in Jti, NEW c \in Code,
             SendCode(k, cl, j, c)
      PROVE  Good
  BY <1>2, <1>3 DEF SendCode
<1>4. ASSUME NEW k \in Call, NEW cl \in Client, NEW j \in Jti, NEW n \in Token,
             SendRefresh(k, cl, j, n)
      PROVE  Good
  BY <1>2, <1>4 DEF SendRefresh
<1>5. ASSUME NEW k \in Call, ConsumeAssertion(k)
      PROVE  Good
  BY <1>1, <1>5 DEF ConsumeAssertion, Ends, CallType
<1>6. ASSUME NEW k \in Call, Refused(k) \/ Reply(k) \/ Lose(k)
      PROVE  Good
  BY <1>1, <1>6 DEF Refused, Reply, Lose, Ends
<1>7. ASSUME NEW k \in Call, NEW n \in Token, Replies(k, n)
      PROVE  calls' \in [Call -> CallType]
  <2>1. calls' = [calls EXCEPT ![k] = [calls[k] EXCEPT !.at = "reply", !.gets = n]]
    BY <1>7 DEF Replies
  <2>2. [calls[k] EXCEPT !.at = "reply", !.gets = n] \in CallType
    BY DEF CallType
  <2> QED
    BY <2>1, <2>2
<1>8. ASSUME NEW k \in Call, NEW c \in Code, NEW f \in Family, NEW n \in Token,
             IssueFromCode(k, c, f, n)
      PROVE  Good
  BY <1>7, <1>8 DEF IssueFromCode
<1>9. ASSUME NEW k \in Call, NEW n \in Token, Reused(k, n)
      PROVE  Good
  BY <1>1, <1>9 DEF Reused, Ends
<1>10. ASSUME NEW k \in Call, NEW n \in Token, NEW next \in Token, Rotate(k, n, next)
       PROVE  Good
  BY <1>7, <1>10 DEF Rotate
<1>11. ASSUME NEW account \in Account, Restart(account)
       PROVE  Good
  BY <1>1, <1>11 DEF Restart
<1> QED
  BY <1>3, <1>4, <1>5, <1>6, <1>8, <1>9, <1>10, <1>11, CallMoves

LEMMA RequestTypeStep ==
    ASSUME requests \in [Request -> RequestType], allowed \in Account,
           families \in [Family -> FamilyType], \A n \in Token : tokens[n] # NoToken => Made(n),
           [Next]_vars
    PROVE  requests' \in [Request -> RequestType] /\ allowed' \in Account
<1>1. ASSUME NEW r \in Request, NEW n \in Token, ReadAccess(r, n)
      PROVE  requests' \in [Request -> RequestType] /\ allowed' \in Account
  <2>1. FamilyOf(n).revoked \in BOOLEAN
    BY <1>1 DEF ReadAccess, NoToken, Made, FamilyType, FamilyOf
  <2> QED
    BY <1>1, <2>1 DEF ReadAccess, RequestType
<1>2. ASSUME NEW r \in Request, ReadFamily(r) \/ Answer(r)
      PROVE  requests' \in [Request -> RequestType] /\ allowed' \in Account
  <2>1. PICK to \in {"admitted", "refused"} :
           requests' \in {[requests EXCEPT ![r].at = to], [requests EXCEPT ![r] = NoRequest]}
    BY <1>2 DEF ReadFamily, Answer
  <2>2. UNCHANGED allowed
    BY <1>2 DEF ReadFamily, Answer
  <2>3. CASE requests' = [requests EXCEPT ![r].at = to]
    BY <2>2, <2>3 DEF RequestType
  <2>4. CASE requests' = [requests EXCEPT ![r] = NoRequest]
    BY <2>2, <2>4 DEF NoRequest, RequestType
  <2> QED
    BY <2>1, <2>3, <2>4
<1>3. ASSUME NEW account \in Account, Restart(account)
      PROVE  requests' \in [Request -> RequestType] /\ allowed' \in Account
  BY <1>3 DEF Restart, NoRequest, RequestType
<1> QED
  BY <1>1, <1>2, <1>3, RequestMoves

LEMMA TypeStep == TypeOK /\ Lines /\ Grounded /\ [Next]_vars => TypeOK'
<1> SUFFICES ASSUME TypeOK, Lines, Grounded, [Next]_vars
             PROVE  TypeOK'
  OBVIOUS
<1>1. /\ codes' \in [Code -> CodeType] /\ families' \in [Family -> FamilyType]
      /\ tokens' \in [Token -> TokenType]
      /\ calls' \in [Call -> CallType] /\ sent' \in [Token -> 0 .. 2]
      /\ requests' \in [Request -> RequestType] /\ allowed' \in Account
  <2>1. /\ codes \in [Code -> CodeType] /\ families \in [Family -> FamilyType]
        /\ tokens \in [Token -> TokenType] /\ calls \in [Call -> CallType]
        /\ sent \in [Token -> 0 .. 2] /\ requests \in [Request -> RequestType]
        /\ allowed \in Account /\ cookie \in Client \cup {None}
    BY DEF TypeOK, CodeType, FamilyType, TokenType, CallType, RequestType
  <2> QED
    BY <2>1, CodeTypeStep, FamilyTypeStep, TokenTypeStep, CallTypeStep, RequestTypeStep DEF Lines
<1>2. cookie' \in Client \cup {None}
  BY CookieMoves DEF TypeOK, StartAuthorization
<1>3. assertions' \subseteq Jti /\ outdated' \subseteq Jti
  <2>1. ASSUME NEW k \in Call, ConsumeAssertion(k)
        PROVE  assertions' \subseteq Jti /\ outdated' \subseteq Jti
    <3>1. calls[k].jti \in Jti
      BY <2>1 DEF ConsumeAssertion, Grounded
    <3>2. assertions' = assertions \cup {calls[k].jti} /\ outdated' = outdated
      BY <2>1 DEF ConsumeAssertion
    <3> QED
      BY <3>1, <3>2 DEF TypeOK
  <2>2. ASSUME NEW j \in Jti, ExpireAssertion(j)
        PROVE  assertions' \subseteq Jti /\ outdated' \subseteq Jti
    <3>1. assertions' = assertions /\ outdated' = outdated \cup {j}
      BY <2>2 DEF ExpireAssertion, docs
    <3> QED
      BY <3>1 DEF TypeOK
  <2>3. CASE UNCHANGED <<assertions, outdated>>
    BY <2>3 DEF TypeOK
  <2> QED
    BY <2>1, <2>2, <2>3, AssertionMoves
<1> QED
  BY <1>1, <1>2, <1>3 DEF TypeOK, CodeType, FamilyType, TokenType, CallType, RequestType

-----------------------------------------------------------------------------
(* A document that was made keeps what it was made for, and a revoked family
   stays revoked. *)
LEMMA FamiliesStay ==
    ASSUME TypeOK, [Next]_vars, NEW f \in Family, families[f] # NoFamily
    PROVE  /\ families'[f] # NoFamily
           /\ families'[f].code = families[f].code /\ families'[f].account = families[f].account
           /\ families[f].revoked => families'[f].revoked
<1>1. ASSUME NEW k \in Call, NEW c \in Code, NEW g \in Family, NEW n \in Token,
             IssueFromCode(k, c, g, n)
      PROVE  families'[f] = families[f]
  BY <1>1 DEF IssueFromCode, TypeOK
<1>2. ASSUME NEW k \in Call, NEW n \in Token, Reused(k, n)
      PROVE  families'[f] = families[f] \/ families'[f] = [families[f] EXCEPT !.revoked = TRUE]
  BY <1>2 DEF Reused, TypeOK
<1>3. families'[f] = families[f] \/ families'[f] = [families[f] EXCEPT !.revoked = TRUE]
  BY <1>1, <1>2, FamilyMoves
<1> QED
  BY <1>3 DEF TypeOK, NoFamily

LEMMA TokensStay ==
    ASSUME TypeOK, Grounded, [Next]_vars, NEW n \in Token, tokens[n] # NoToken
    PROVE  /\ tokens'[n] # NoToken /\ tokens'[n].family = tokens[n].family
           /\ tokens[n].used => tokens'[n].used
<1> DEFINE Stays == /\ tokens'[n] # NoToken /\ tokens'[n].family = tokens[n].family
                    /\ tokens[n].used => tokens'[n].used
<1>1. ASSUME NEW k \in Call, NEW c \in Code, NEW f \in Family, NEW m \in Token,
             IssueFromCode(k, c, f, m)
      PROVE  Stays
  BY <1>1 DEF IssueFromCode, TypeOK
<1>2. ASSUME NEW k \in Call, NEW m \in Token, NEW next \in Token, Rotate(k, m, next)
      PROVE  Stays
  BY <1>2 DEF Rotate, Rotated, TypeOK, NoToken
<1>3. ASSUME NEW k \in Call, Reply(k)
      PROVE  Stays
  BY <1>3 DEF Reply, TypeOK, NoToken
<1>4. ASSUME NEW m \in Token, ExpireToken(m)
      PROVE  Stays
  <2>1. CASE n = m
    <3>1. /\ tokens'[n].stale /\ tokens'[n].family = tokens[n].family
          /\ tokens'[n].used = tokens[n].used
      BY <1>4, <2>1 DEF ExpireToken, TypeOK
    <3> QED
      BY <3>1 DEF NoToken
  <2>2. CASE n # m
    BY <1>4, <2>2 DEF ExpireToken, TypeOK
  <2> QED
    BY <2>1, <2>2
<1>5. CASE UNCHANGED tokens
  BY <1>5
<1> QED
  BY <1>1, <1>2, <1>3, <1>4, <1>5, TokenMoves

LEMMA SentStays ==
    ASSUME TypeOK, [Next]_vars, NEW n \in Token
    PROVE  /\ sent[n] # 0 => sent'[n] # 0
           /\ sent[n] = 2 => sent'[n] = 2
<1>1. ASSUME NEW k \in Call, NEW cl \in Client, NEW j \in Jti, NEW m \in Token,
             SendRefresh(k, cl, j, m)
      PROVE  sent'[n] = sent[n] \/ sent'[n] = (IF sent[n] = 0 THEN 1 ELSE 2)
  BY <1>1 DEF SendRefresh, TypeOK
<1>2. sent'[n] = sent[n] \/ sent'[n] = (IF sent[n] = 0 THEN 1 ELSE 2)
  BY <1>1, CallMoves DEF SendCode, ConsumeAssertion, Refused, Reply, Lose, IssueFromCode, Reused,
                         Rotate, Restart
<1> QED
  BY <1>2

(* Who presents a token presented it before the step, or sends it now. *)
LEMMA Presents ==
    ASSUME TypeOK, [Next]_vars, NEW k \in Call, NEW n \in Token, Presenting(k, n)'
    PROVE  \/ Presenting(k, n)
           \/ \E cl \in Client, j \in Jti : SendRefresh(k, cl, j, n)
<1> DEFINE Ok == \/ Presenting(k, n)
                 \/ \E cl \in Client, j \in Jti : SendRefresh(k, cl, j, n)
<1>1. ASSUME NEW q \in Call, NEW cl \in Client, NEW j \in Jti, NEW c \in Code,
             SendCode(q, cl, j, c)
      PROVE  Ok
  BY <1>1, NamesAssumption DEF SendCode, Sends, Presenting, TypeOK, Idle
<1>2. ASSUME NEW q \in Call, NEW cl \in Client, NEW j \in Jti, NEW m \in Token,
             SendRefresh(q, cl, j, m)
      PROVE  Ok
  BY <1>2 DEF SendRefresh, Sends, Presenting, TypeOK, Idle
<1>3. ASSUME NEW q \in Call, ConsumeAssertion(q)
      PROVE  Ok
  BY <1>3 DEF ConsumeAssertion, Ends, Presenting, TypeOK, Idle
<1>4. ASSUME NEW q \in Call, Ends(q)
      PROVE  Ok
  BY <1>4 DEF Ends, Presenting, TypeOK, Idle
<1>5. ASSUME NEW q \in Call, NEW m \in Token, Replies(q, m)
      PROVE  Ok
  BY <1>5 DEF Replies, Presenting, TypeOK
<1>6. ASSUME NEW account \in Account, Restart(account)
      PROVE  Ok
  BY <1>6 DEF Restart, Presenting, Idle
<1>7. CASE UNCHANGED <<calls, sent>>
  BY <1>7 DEF Presenting
<1> QED
  BY <1>1, <1>2, <1>3, <1>4, <1>5, <1>6, <1>7, CallOutcomes

(* A token that becomes used was presented by the call that rotates it. *)
LEMMA BecomesUsed ==
    ASSUME TypeOK, [Next]_vars, NEW n \in Token, tokens'[n].used, ~tokens[n].used
    PROVE  \E k \in Call, next \in Token : Rotate(k, n, next)
<1>1. ASSUME NEW k \in Call, NEW c \in Code, NEW f \in Family, NEW m \in Token,
             IssueFromCode(k, c, f, m)
      PROVE  FALSE
  BY <1>1 DEF IssueFromCode, Fresh, NoToken, TypeOK
<1>2. ASSUME NEW k \in Call, NEW m \in Token, NEW next \in Token, Rotate(k, m, next)
      PROVE  m = n
  BY <1>2 DEF Rotate, Rotated, Fresh, NoToken, TypeOK
<1>3. ASSUME NEW k \in Call, Reply(k)
      PROVE  FALSE
  BY <1>3 DEF Reply, TypeOK
<1>4. ASSUME NEW m \in Token, ExpireToken(m)
      PROVE  FALSE
  BY <1>4 DEF ExpireToken, TypeOK
<1> QED
  BY <1>1, <1>2, <1>3, <1>4, TokenMoves

-----------------------------------------------------------------------------
(* The parts of the invariant, one after the other. *)
LEMMA ConsentsStep == TypeOK /\ Consents /\ [Next]_vars => Consents'
<1> SUFFICES ASSUME TypeOK, Consents, [Next]_vars
             PROVE  Consents'
  OBVIOUS
<1>1. ASSUME NEW account \in Account, NEW c \in Code, NEW known \in BOOLEAN, NEW kept \in BOOLEAN,
             CompleteAuthorization(account, c, known, kept)
      PROVE  Consents'
  <2>1. UNCHANGED families /\ ~codes[c].used
    BY <1>1 DEF CompleteAuthorization, NoCode
  <2>2. \A d \in Code : codes[d].used => codes'[d].used
    BY <1>1, <2>1 DEF CompleteAuthorization, TypeOK
  <2> QED
    BY <2>1, <2>2 DEF Consents
<1>2. ASSUME NEW k \in Call, NEW c \in Code, NEW f \in Family, NEW n \in Token,
             IssueFromCode(k, c, f, n)
      PROVE  Consents'
  <2>1. /\ ~codes[c].used /\ families[f] = NoFamily
        /\ families'[f].code = c /\ codes'[c].used
    BY <1>2 DEF IssueFromCode, CodeRefused, Spent, TypeOK
  <2>2. \A d \in Code : codes[d].used => codes'[d].used
    BY <1>2 DEF IssueFromCode, Spent, TypeOK
  <2>3. \A g \in Family : g # f => families'[g] = families[g]
    BY <1>2 DEF IssueFromCode, TypeOK
  <2>4. \A g \in Family : g # f => families'[g].code # c
    <3>1. None # c
      BY NoneAssumption
    <3> QED
      BY <2>1, <2>3, <3>1 DEF Consents, NoFamily
  <2> QED
    BY <2>1, <2>2, <2>3, <2>4 DEF Consents
<1>3. ASSUME NEW k \in Call, NEW n \in Token, Reused(k, n)
      PROVE  Consents'
  <2>1. UNCHANGED codes
    BY <1>3 DEF Reused
  <2>2. \A g \in Family : families'[g].code = families[g].code
    BY <1>3 DEF Reused, TypeOK
  <2>3. \A g \in Family : g # tokens[n].family => families'[g] = families[g]
    BY <1>3 DEF Reused, TypeOK
  <2>4. families[tokens[n].family].account # None
    <3>1. families[tokens[n].family].account = allowed
      BY <1>3 DEF Reused, RefreshRefused, FamilyOf
    <3> QED
      BY <3>1, NoneAssumption DEF TypeOK
  <2>5. \A g \in Family : families'[g] # NoFamily => families[g] # NoFamily
    BY <2>3, <2>4 DEF NoFamily
  <2> QED
    BY <2>1, <2>2, <2>5 DEF Consents
<1>4. ASSUME NEW c \in Code, ExpireCode(c)
      PROVE  Consents'
  <2>1. UNCHANGED families
    BY <1>4 DEF ExpireCode
  <2>2. \A d \in Code : codes'[d].used = codes[d].used
    BY <1>4 DEF ExpireCode, TypeOK
  <2> QED
    BY <2>1, <2>2 DEF Consents
<1>5. CASE UNCHANGED <<codes, families>>
  BY <1>5 DEF Consents
<1> QED
  BY <1>1, <1>2, <1>3, <1>4, <1>5, CodeMoves, FamilyMoves

LEMMA LinesStep == TypeOK /\ Lines /\ Grounded /\ [Next]_vars => Lines'
<1> SUFFICES ASSUME TypeOK, Lines, Grounded, [Next]_vars
             PROVE  Lines'
  OBVIOUS
<1>1. ASSUME NEW n \in Token, tokens[n] # NoToken
      PROVE  Made(n)'
  BY <1>1, FamiliesStay, TokensStay DEF Lines, Made
<1>2. CASE \A n \in Token : tokens'[n] # NoToken =>
              /\ tokens[n] # NoToken /\ tokens'[n].family = tokens[n].family
              /\ tokens'[n].used = tokens[n].used
  <2>1. \A n \in Token : tokens'[n] # NoToken => Made(n)'
    BY <1>1, <1>2
  <2>2. \A n \in Token : tokens'[n] = NoToken => tokens'[n].family \notin Family
    BY NoneAssumption DEF NoToken
  <2>3. ASSUME NEW m \in Token, NEW n \in Token, tokens'[m] # NoToken,
               tokens'[m].family = tokens'[n].family, ~tokens'[m].used, ~tokens'[n].used
        PROVE  m = n
    <3>1. tokens'[n] # NoToken
      BY <2>1, <2>2, <2>3 DEF Made
    <3> QED
      BY <1>2, <2>3, <3>1 DEF Lines
  <2> QED
    BY <2>1, <2>3 DEF Lines
<1>3. ASSUME NEW f \in Family, NEW new \in Token, tokens[new] = NoToken,
             families'[f] # NoFamily, tokens'[new] = Fresh(f),
             \A m \in Token : m # new /\ tokens[m] # NoToken /\ tokens[m].family = f => tokens'[m].used,
             \A m \in Token : m # new =>
                /\ tokens'[m] # NoToken <=> tokens[m] # NoToken
                /\ tokens'[m].family = tokens[m].family
                /\ ~tokens'[m].used => ~tokens[m].used
      PROVE  Lines'
  <2>1. Made(new)' /\ tokens'[new].family = f
    BY <1>3 DEF Made, Fresh, NoToken
  <2>2. \A n \in Token : tokens'[n] # NoToken => Made(n)'
    BY <1>1, <1>3, <2>1
  <2>3. \A n \in Token : n # new /\ tokens[n] = NoToken => tokens'[n].family \notin Family
    BY <1>3, NoneAssumption DEF NoToken
  <2>4. ASSUME NEW m \in Token, NEW n \in Token, tokens'[m] # NoToken,
               tokens'[m].family = tokens'[n].family, ~tokens'[m].used, ~tokens'[n].used
        PROVE  m = n
    <3>1. tokens'[m].family \in Family
      BY <2>2, <2>4 DEF Made
    <3>2. CASE m # new /\ n # new
      BY <1>3, <2>3, <2>4, <3>1, <3>2 DEF Lines
    <3>3. CASE m = new /\ n # new
      BY <1>3, <2>1, <2>3, <2>4, <3>1, <3>3
    <3>4. CASE m # new /\ n = new
      BY <1>3, <2>1, <2>4, <3>4
    <3> QED
      BY <3>2, <3>3, <3>4
  <2> QED
    BY <2>2, <2>4 DEF Lines
<1>4. ASSUME NEW k \in Call, NEW c \in Code, NEW f \in Family, NEW n \in Token,
             IssueFromCode(k, c, f, n)
      PROVE  Lines'
  <2>1. /\ tokens[n] = NoToken /\ tokens'[n] = Fresh(f) /\ families[f] = NoFamily
        /\ \A m \in Token : m # n => tokens'[m] = tokens[m]
    BY <1>4 DEF IssueFromCode, TypeOK
  <2>2. families'[f] # NoFamily
    <3>1. families'[f].code = c /\ c # None
      BY <1>4, NoneAssumption DEF IssueFromCode, TypeOK
    <3> QED
      BY <3>1 DEF NoFamily
  <2>3. \A m \in Token : tokens[m] # NoToken => tokens[m].family # f
    BY <2>1 DEF Lines, Made
  <2> QED
    BY <1>3, <2>1, <2>2, <2>3
<1>5. ASSUME NEW k \in Call, NEW n \in Token, NEW next \in Token, Rotate(k, n, next)
      PROVE  Lines'
  <2>1. Presenting(k, n) /\ ~tokens[n].used /\ tokens[next] = NoToken
    BY <1>5 DEF Rotate, Presenting
  <2>2. tokens[n] # NoToken /\ Made(n) /\ n # next
    BY <2>1 DEF Grounded, Lines
  <2>3. families'[tokens[n].family] # NoFamily
    BY <2>2, FamiliesStay DEF Made
  <2>4. /\ tokens'[next] = Fresh(tokens[n].family)
        /\ tokens'[n] = [tokens[n] EXCEPT !.used = TRUE]
        /\ \A m \in Token : m \notin {n, next} => tokens'[m] = tokens[m]
    BY <1>5, <2>2 DEF Rotate, Rotated, TypeOK
  <2>5. /\ tokens'[n] # NoToken /\ tokens'[n].family = tokens[n].family /\ tokens'[n].used
    BY <2>4 DEF NoToken, TypeOK
  <2>6. \A m \in Token : m # n /\ tokens[m] # NoToken /\ tokens[m].family = tokens[n].family
                            => tokens[m].used
    BY <2>1, <2>2 DEF Lines
  <2>7. tokens[n].family \in Family
    BY <2>2 DEF Made
  <2>8. \A m \in Token : m # next /\ tokens[m] # NoToken /\ tokens[m].family = tokens[n].family
                            => tokens'[m].used
    BY <2>4, <2>5, <2>6
  <2>9. \A m \in Token : m # next =>
           /\ tokens'[m] # NoToken <=> tokens[m] # NoToken
           /\ tokens'[m].family = tokens[m].family
           /\ ~tokens'[m].used => ~tokens[m].used
    BY <2>2, <2>4, <2>5
  <2> QED
    BY <1>3, <2>1, <2>3, <2>4, <2>7, <2>8, <2>9
<1>6. ASSUME NEW k \in Call, Reply(k)
      PROVE  Lines'
  <2>1. calls[k].gets \in Token /\ tokens[calls[k].gets] # NoToken
    BY <1>6 DEF Reply, Grounded
  <2>2. \A n \in Token : /\ tokens'[n].family = tokens[n].family
                         /\ tokens'[n].used = tokens[n].used
                         /\ n # calls[k].gets => tokens'[n] = tokens[n]
    BY <1>6, <2>1 DEF Reply, TypeOK
  <2> QED
    BY <1>2, <2>1, <2>2
<1>7. ASSUME NEW n \in Token, ExpireToken(n)
      PROVE  Lines'
  <2>1. tokens[n] # NoToken
    BY <1>7 DEF ExpireToken
  <2>2. \A m \in Token : /\ tokens'[m].family = tokens[m].family
                         /\ tokens'[m].used = tokens[m].used
                         /\ m # n => tokens'[m] = tokens[m]
    BY <1>7 DEF ExpireToken, TypeOK
  <2> QED
    BY <1>2, <2>1, <2>2
<1>8. CASE UNCHANGED tokens
  BY <1>2, <1>8
<1> QED
  BY <1>4, <1>5, <1>6, <1>7, <1>8, TokenMoves

LEMMA GroundedStep == TypeOK /\ Lines /\ Grounded /\ [Next]_vars => Grounded'
<1> SUFFICES ASSUME TypeOK, Lines, Grounded, [Next]_vars
             PROVE  Grounded'
  OBVIOUS
<1>1. ASSUME NEW k \in Call, NEW n \in Token, Presenting(k, n)'
      PROVE  tokens'[n] # NoToken
  <2>1. CASE Presenting(k, n)
    BY <2>1, TokensStay DEF Grounded
  <2>2. ASSUME NEW cl \in Client, NEW j \in Jti, SendRefresh(k, cl, j, n)
        PROVE  tokens'[n] # NoToken
    BY <2>2 DEF SendRefresh, Sends, docs, NoToken
  <2> QED
    BY <1>1, <2>1, <2>2, Presents
<1>2. ASSUME NEW k \in Call, calls'[k].at # "idle", calls[k].at # "idle"
      PROVE  calls'[k].with = calls[k].with /\ calls'[k].jti = calls[k].jti
  <2> DEFINE Same == calls'[k].with = calls[k].with /\ calls'[k].jti = calls[k].jti
  <2>1. ASSUME NEW q \in Call, NEW cl \in Client, NEW j \in Jti, NEW with, Sends(q, cl, j, with)
        PROVE  Same
    BY <1>2, <2>1 DEF Sends, Idle, TypeOK
  <2>2. ASSUME NEW q \in Call, Ends(q)
        PROVE  Same
    BY <1>2, <2>2 DEF Ends, Idle, TypeOK
  <2>3. ASSUME NEW q \in Call, NEW n \in Token, Replies(q, n)
        PROVE  Same
    BY <2>3 DEF Replies, TypeOK
  <2>4. ASSUME NEW q \in Call, ConsumeAssertion(q)
        PROVE  Same
    <3>1. Ends(q) \/ calls' = [calls EXCEPT ![q].at = "grant"]
      BY <2>4 DEF ConsumeAssertion
    <3> QED
      BY <2>2, <3>1 DEF TypeOK
  <2>5. ASSUME NEW account \in Account, Restart(account)
        PROVE  Same
    BY <1>2, <2>5 DEF Restart, Idle
  <2>6. CASE UNCHANGED <<calls, sent>>
    BY <2>6
  <2> QED
    BY <2>1, <2>2, <2>3, <2>4, <2>5, <2>6, CallOutcomes
    DEF SendCode, SendRefresh
<1>3. ASSUME NEW k \in Call, calls'[k].at # "idle", calls[k].at = "idle"
      PROVE  calls'[k].with \in Code \cup Token /\ calls'[k].jti \in Jti
  <2> DEFINE Named == calls'[k].with \in Code \cup Token /\ calls'[k].jti \in Jti
  <2>1. ASSUME NEW q \in Call, NEW cl \in Client, NEW j \in Jti, NEW with \in Code \cup Token,
               Sends(q, cl, j, with)
        PROVE  Named
    BY <1>3, <2>1 DEF Sends, Idle, TypeOK
  <2>2. ASSUME NEW q \in Call, Ends(q) \/ (calls[q].at # "idle" /\ \E r : calls' = [calls EXCEPT ![q] = r])
        PROVE  FALSE
    BY <1>3, <2>2 DEF Ends, Idle, TypeOK
  <2>3. ASSUME NEW q \in Call, ConsumeAssertion(q)
        PROVE  FALSE
    BY <1>3, <2>3 DEF ConsumeAssertion, Ends, Idle, TypeOK
  <2>4. ASSUME NEW q \in Call, NEW n \in Token, calls[q].at = "grant", Replies(q, n)
        PROVE  FALSE
    BY <1>3, <2>4 DEF Replies, TypeOK
  <2>5. ASSUME NEW account \in Account, Restart(account)
        PROVE  FALSE
    BY <1>3, <2>5 DEF Restart, Idle
  <2> QED
    BY <1>3, <2>1, <2>2, <2>3, <2>4, <2>5, CallOutcomes
    DEF SendCode, SendRefresh
<1>4. ASSUME NEW k \in Call, calls'[k].at = "reply"
      PROVE  calls'[k].gets \in Token /\ tokens'[calls'[k].gets] # NoToken
  <2> DEFINE Got == calls'[k].gets \in Token /\ tokens'[calls'[k].gets] # NoToken
  <2>1. CASE calls[k].at = "reply" /\ calls'[k].gets = calls[k].gets
    BY <2>1, TokensStay DEF Grounded
  <2>2. ASSUME NEW q \in Call, NEW n \in Token, Replies(q, n), tokens'[n] # NoToken
        PROVE  Got
    <3>1. CASE q = k
      BY <2>2, <3>1 DEF Replies, TypeOK
    <3>2. CASE q # k
      BY <1>4, <2>1, <2>2, <3>2 DEF Replies, TypeOK
    <3> QED
      BY <3>1, <3>2
  <2>3. ASSUME NEW q \in Call, NEW c \in Code, NEW f \in Family, NEW n \in Token,
               IssueFromCode(q, c, f, n)
        PROVE  Got
    <3>1. tokens'[n] # NoToken
      BY <2>3, NoneAssumption DEF IssueFromCode, Fresh, NoToken, TypeOK
    <3> QED
      BY <2>2, <2>3, <3>1 DEF IssueFromCode
  <2>4. ASSUME NEW q \in Call, NEW n \in Token, NEW next \in Token, Rotate(q, n, next)
        PROVE  Got
    <3>1. tokens[n].family \in Family
      BY <2>4 DEF Rotate, Presenting, Grounded, Lines, Made
    <3>2. tokens'[next].family = tokens[n].family
      BY <2>4 DEF Rotate, Rotated, Fresh, NoToken, TypeOK
    <3>3. tokens'[next] # NoToken
      BY <3>1, <3>2, NoneAssumption DEF NoToken
    <3> QED
      BY <2>2, <2>4, <3>3 DEF Rotate
  <2>5. ASSUME NEW q \in Call, NEW cl \in Client, NEW j \in Jti, NEW with, Sends(q, cl, j, with)
        PROVE  Got
    BY <1>4, <2>1, <2>5 DEF Sends, Idle, TypeOK
  <2>6. ASSUME NEW q \in Call, Ends(q)
        PROVE  Got
    BY <1>4, <2>1, <2>6 DEF Ends, Idle, TypeOK
  <2>7. ASSUME NEW q \in Call, ConsumeAssertion(q)
        PROVE  Got
    <3>1. Ends(q) \/ calls' = [calls EXCEPT ![q].at = "grant"]
      BY <2>7 DEF ConsumeAssertion
    <3>2. CASE calls' = [calls EXCEPT ![q].at = "grant"]
      <4>1. q # k /\ calls'[k] = calls[k]
        BY <1>4, <3>2 DEF TypeOK
      <4> QED
        BY <1>4, <2>1, <4>1
    <3> QED
      BY <2>6, <3>1, <3>2
  <2>8. ASSUME NEW account \in Account, Restart(account)
        PROVE  Got
    BY <1>4, <2>8 DEF Restart, Idle
  <2>9. CASE UNCHANGED <<calls, sent>>
    BY <1>4, <2>1, <2>9
  <2> QED
    BY <2>3, <2>4, <2>5, <2>6, <2>7, <2>8, <2>9, CallMoves
    DEF SendCode, SendRefresh, Reused, Refused, Reply, Lose
<1> QED
  BY <1>1, <1>2, <1>3, <1>4 DEF Grounded

LEMMA CountedStep == TypeOK /\ Counted /\ [Next]_vars => Counted'
<1> SUFFICES ASSUME TypeOK, Counted, [Next]_vars
             PROVE  Counted'
  OBVIOUS
<1>1. ASSUME NEW k \in Call, NEW n \in Token, NEW next \in Token, Rotate(k, n, next)
      PROVE  Presenting(k, n) /\ ~Presenting(k, n)'
  BY <1>1 DEF Rotate, Replies, Presenting, TypeOK
<1>2. ASSUME NEW k \in Call, NEW n \in Token, NEW cl \in Client, NEW j \in Jti,
             SendRefresh(k, cl, j, n)
      PROVE  /\ ~Presenting(k, n) /\ UNCHANGED tokens
             /\ sent'[n] # 0
             /\ sent[n] # 0 => sent'[n] = 2
             /\ \A q \in Call : q # k => calls'[q] = calls[q]
  BY <1>2 DEF SendRefresh, Sends, Presenting, Idle, docs, TypeOK
<1>3. ASSUME NEW n \in Token, tokens'[n].used
      PROVE  sent'[n] # 0
  BY <1>1, <1>3, BecomesUsed, SentStays DEF Counted
<1>4. ASSUME NEW k \in Call, NEW n \in Token, Presenting(k, n)'
      PROVE  sent'[n] # 0
  BY <1>2, <1>4, Presents, SentStays DEF Counted
<1>5. ASSUME NEW k \in Call, NEW n \in Token, Presenting(k, n)', tokens'[n].used
      PROVE  sent'[n] = 2
  <2>1. ASSUME NEW cl \in Client, NEW j \in Jti, SendRefresh(k, cl, j, n)
        PROVE  sent'[n] = 2
    BY <1>2, <1>5, <2>1 DEF Counted
  <2>2. CASE Presenting(k, n) /\ tokens[n].used
    BY <2>2, SentStays DEF Counted
  <2>3. CASE Presenting(k, n) /\ ~tokens[n].used
    <3>1. PICK q \in Call, next \in Token : Rotate(q, n, next)
      BY <1>5, <2>3, BecomesUsed
    <3>2. q # k /\ Presenting(q, n)
      BY <1>1, <1>5, <3>1
    <3> QED
      BY <2>3, <3>2, SentStays DEF Counted
  <2> QED
    BY <1>5, <2>1, <2>2, <2>3, Presents
<1>6. ASSUME NEW j \in Call, NEW k \in Call, NEW n \in Token, Presenting(j, n)',
             Presenting(k, n)', j # k
      PROVE  sent'[n] = 2
  <2>1. CASE Presenting(j, n) /\ Presenting(k, n)
    BY <1>6, <2>1, SentStays DEF Counted
  <2>2. ASSUME NEW p \in Call, NEW q \in Call, p # q, Presenting(q, n)',
               NEW cl \in Client, NEW a \in Jti, SendRefresh(p, cl, a, n)
        PROVE  sent'[n] = 2
    <3>1. Presenting(q, n)
      BY <1>2, <2>2 DEF Presenting
    <3> QED
      BY <1>2, <2>2, <3>1 DEF Counted
  <2> QED
    BY <1>6, <2>1, <2>2, Presents
<1> QED
  BY <1>3, <1>4, <1>5, <1>6 DEF Counted

LEMMA SessionKeptStep ==
    TypeOK /\ Lines /\ Grounded /\ Counted /\ SessionKept /\ [Next]_vars => SessionKept'
<1> SUFFICES ASSUME TypeOK, Lines, Grounded, Counted, SessionKept, [Next]_vars,
                    NEW f \in Family, families'[f].revoked
             PROVE  \E n \in Token : tokens'[n].family = f /\ sent'[n] = 2
  BY DEF SessionKept
<1>1. CASE families[f].revoked
  <2>1. PICK n \in Token : tokens[n].family = f /\ sent[n] = 2
    BY <1>1 DEF SessionKept
  <2>2. tokens[n] # NoToken
    BY <2>1, NoneAssumption DEF NoToken
  <2> QED
    BY <2>1, <2>2, TokensStay, SentStays
<1>2. CASE ~families[f].revoked
  <2>1. ASSUME NEW k \in Call, NEW c \in Code, NEW g \in Family, NEW n \in Token,
               IssueFromCode(k, c, g, n)
        PROVE  FALSE
    BY <1>2, <2>1 DEF IssueFromCode, TypeOK
  <2>2. PICK k \in Call, n \in Token : Reused(k, n)
    BY <1>2, <2>1, FamilyMoves
  <2>3. tokens[n].family = f
    BY <1>2, <2>2 DEF Reused, TypeOK
  <2>4. Presenting(k, n) /\ tokens[n].used /\ UNCHANGED tokens
    BY <2>2 DEF Reused, Presenting
  <2>5. sent'[n] = 2
    BY <2>4, SentStays DEF Counted
  <2> QED
    BY <2>3, <2>4, <2>5
<1> QED
  BY <1>1, <1>2

LEMMA WatchedStep == TypeOK /\ Lines /\ Grounded /\ Watched /\ [Next]_vars => Watched'
<1> SUFFICES ASSUME TypeOK, Lines, Grounded, Watched, [Next]_vars,
                    NEW r \in Request, requests'[r].at = "family"
             PROVE  /\ requests'[r].token \in Token /\ tokens'[requests'[r].token] # NoToken
                    /\ FamilyOf(requests[r].token)'.account = allowed'
                    /\ requests'[r].late => FamilyOf(requests[r].token)'.revoked
  BY DEF Watched, FamilyOf
<1> DEFINE Good(t, late) ==
              /\ t \in Token /\ tokens[t] # NoToken /\ families[tokens[t].family].account = allowed
              /\ late => families[tokens[t].family].revoked
<1>1. ASSUME NEW t, NEW late, Good(t, late), allowed' = allowed
      PROVE  Good(t, late)'
  BY <1>1, TokensStay, FamiliesStay DEF Lines, Made
<1>2. CASE UNCHANGED <<requests, allowed>>
  BY <1>1, <1>2 DEF Watched, FamilyOf
<1>3. ASSUME NEW q \in Request, NEW n \in Token, ReadAccess(q, n)
      PROVE  Good(requests[r].token, requests[r].late)'
  <2>1. tokens[n] # NoToken /\ UNCHANGED allowed
    BY <1>3 DEF ReadAccess, NoToken
  <2>2. CASE q = r
    <3>1. requests'[r].token = n /\ requests'[r].late = FamilyOf(n).revoked
      BY <1>3, <2>2 DEF ReadAccess, TypeOK
    <3>2. FamilyOf(n).account = allowed
      BY <1>3 DEF ReadAccess
    <3> QED
      BY <1>1, <2>1, <3>1, <3>2 DEF FamilyOf
  <2>3. CASE q # r
    <3>1. requests'[r] = requests[r]
      BY <1>3, <2>3 DEF ReadAccess, TypeOK
    <3> QED
      BY <1>1, <2>1, <3>1 DEF Watched, FamilyOf
  <2> QED
    BY <2>2, <2>3
<1>4. ASSUME NEW q \in Request, ReadFamily(q) \/ Answer(q)
      PROVE  Good(requests[r].token, requests[r].late)'
  <2>1. requests'[r] = requests[r]
    BY <1>4 DEF ReadFamily, Answer, NoRequest, TypeOK
  <2>2. UNCHANGED allowed
    BY <1>4 DEF ReadFamily, Answer
  <2> QED
    BY <1>1, <2>1, <2>2 DEF Watched, FamilyOf
<1>5. ASSUME NEW account \in Account, Restart(account)
      PROVE  FALSE
  BY <1>5 DEF Restart, NoRequest
<1> QED
  BY <1>2, <1>3, <1>4, <1>5, RequestMoves DEF FamilyOf

LEMMA Invariance == Spec => []GatewayInv
<1>1. GatewayInv /\ [Next]_vars => GatewayInv'
  BY TypeStep, ConsentsStep, LinesStep, GroundedStep, CountedStep, SessionKeptStep, WatchedStep
  DEF GatewayInv
<1> QED
  BY InitInv, <1>1, PTL DEF Spec

-----------------------------------------------------------------------------
(* The documents keep their shape, and what they name is of the right kind. *)
THEOREM TypeCorrect == Spec => []TypeOK
<1>1. GatewayInv => TypeOK
  BY DEF GatewayInv
<1> QED
  BY <1>1, Invariance, PTL

(* A code makes one family, and a family has one refresh token that was not
   used (oauth.mjs, issueFromCode() and issueFromRefresh()). *)
THEOREM OneSuccessorSafe == Spec => []OneSuccessor
<1>1. GatewayInv => OneSuccessor
  BY DEF GatewayInv, Consents, Lines, OneSuccessor
<1> QED
  BY <1>1, Invariance, PTL

(* Only a refresh token that was sent twice revokes its family. *)
THEOREM SessionKeptSafe == Spec => []SessionKept
<1>1. GatewayInv => SessionKept
  BY DEF GatewayInv
<1> QED
  BY <1>1, Invariance, PTL

(* No request for /mcp is admitted with a family that was revoked before it
   began, nor for another account (authorizePublicMcp()). *)
THEOREM RevokedStaysOutHolds == Spec => RevokedStaysOut
<1> DEFINE Admits ==
       \A r \in Request :
          requests[r].at = "family" /\ requests'[r].at = "admitted"
            => ~requests[r].late /\ FamilyOf(requests[r].token).account = allowed'
<1>1. GatewayInv /\ [Next]_vars => [Admits]_vars
  <2> SUFFICES ASSUME GatewayInv, [Next]_vars, NEW r \in Request,
                      requests[r].at = "family", requests'[r].at = "admitted"
               PROVE  ~requests[r].late /\ FamilyOf(requests[r].token).account = allowed'
    OBVIOUS
  <2>1. ASSUME NEW q \in Request, NEW n \in Token, ReadAccess(q, n)
        PROVE  FALSE
    BY <2>1 DEF ReadAccess, GatewayInv, TypeOK
  <2>2. ASSUME NEW q \in Request, Answer(q)
        PROVE  FALSE
    BY <2>2 DEF Answer, NoRequest, GatewayInv, TypeOK
  <2>3. ASSUME NEW account \in Account, Restart(account)
        PROVE  FALSE
    BY <2>3 DEF Restart, NoRequest
  <2>4. PICK q \in Request : ReadFamily(q)
    BY <2>1, <2>2, <2>3, RequestMoves
  <2>5. q = r /\ FamilyGood(requests[r].token)
    BY <2>4 DEF ReadFamily, GatewayInv, TypeOK
  <2>6. UNCHANGED allowed
    BY <2>4 DEF ReadFamily
  <2> QED
    BY <2>5, <2>6 DEF FamilyGood, GatewayInv, Watched
<1> QED
  BY <1>1, Invariance, PTL DEF Spec, RevokedStaysOut

=============================================================================
