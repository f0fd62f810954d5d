----------------------------- MODULE MC_KeyStore -----------------------------
EXTENDS KeyStore

CONSTANTS ka, nokid, a1, a2, x, y, u1, u2, noaud, nomax

OneKid == {ka}
TwoAlgs == {a1, a2}
TwoSecrets == {x, y}
TwoAuds == {u1, u2}
DefaultAud == {u1}
\* A key restricted to u2 only, so the replacement of the default matters.
RestrictedAud == {{u2}}
\* A key lifetime below the default maxAge of 2.
ShortLife == {1}
Durations == {1, 2}
\* aud as the default value, the other value, or missing.
TokenAuds == {{u1}, {u2}}
=============================================================================
