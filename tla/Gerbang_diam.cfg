\* A login in a session that was idle too long.
SPECIFICATION Spec
CONSTANTS
    p1 = p1  p2 = p2  b1 = b1  u1 = u1
    Tiada = Tiada
    Req = {p1, p2}
    MaxId = 3
    Isi <- IsiGerbang
    Kosong <- KosongGerbang
    Ukuran <- UkuranGerbang
    GcMax = 0
    MaxJam = 1
    Peramban = {b1}
    Lokal <- LokalGerbang
    Akun = {u1}
    Batas = 1
    DiamMax = 0
    MaxReq = 6
\* MaxReq, MaxId and MaxJam end the run.
CHECK_DEADLOCK FALSE
PROPERTIES MasukTakDiam
