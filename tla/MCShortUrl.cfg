\* A client that goes on shortening and expanding at two processes of either
\* service, and one whose call may update or delete; u1 and u2 collide.
CONSTANTS
    Call = {c1, c2}
    ModelCall = {c2}
    Again = {c1}
    s1 = s1
    s2 = s2
    Server = {s1, s2}
    k1 = k1
    k2 = k2
    u1 = u1
    u2 = u2
    u3 = u3
    Key = {k1, k2}
    Row = {u1, u2, u3}
    Md5Key <- CollidingKey
    None = None
    NotFound = NotFound
    Failed = Failed
    Ok = Ok
SPECIFICATION Spec
SYMMETRY Alike
INVARIANTS
    ExpandsToItsUrl
    StaleOnlyByAccident
