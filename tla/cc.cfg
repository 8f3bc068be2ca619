SPECIFICATION Spec
CONSTANTS
    k1 = k1
    k2 = k2
    k3 = k3
    f1 = f1
    f2 = f2
    lf = lf
    crlf = crlf
    Keys = {k1, k2, k3}
    Files = {f1, f2}
    FileOf <- SharedFile
    Contents = {lf, crlf}
    Newlines <- ReadText
    Torn = torn
    Absent = absent
    TTL = 2
INVARIANTS
    TypeOK
    Survives
