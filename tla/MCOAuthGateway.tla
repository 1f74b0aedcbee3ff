--------------------------- MODULE MCOAuthGateway ---------------------------
EXTENDS OAuthGateway, TLC

Symmetry ==
    Permutations(Client) \cup Permutations(Account) \cup Permutations(Jti) \cup Permutations(Code)
        \cup Permutations(Family) \cup Permutations(Token) \cup Permutations(Call)

=============================================================================
