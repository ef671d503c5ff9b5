\* The accounts: an admin, a customer and a visitor.
SPECIFICATION Spec
CONSTANTS
    s1 = s1  s2 = s2  s3 = s3
    adm = adm  ben = ben  pet = pet  w1 = w1
    Tiada = Tiada
    Sesi = {s1, s2, s3}
    Username = {adm, w1}
    PemilikSesi <- TigaSesi
    IdTarif = {1}
    Tipe <- MCTipe
    Data <- MCData
    HargaUji = {2}
    MeterUji = {0, 1}
    MaxJam = 0
    MaxHari = 1
    TglPHP <- MCHari
    TglDB <- MCHari
    BulanDari <- MCBulan
    BatasUmur = 0
    LoginAwal <- MCLoginKecil
    TarifAwal <- MCTarif
    PemakaianAwal <- MCPemakaian
    NoAwal = 1
    TombolUji <- TombolAkun
    MaxReq = 3
    BolehGagal = FALSE
    IsianBebas = FALSE
    SkripAir = FALSE
INVARIANTS AuditLengkap
PROPERTIES LevelHanyaAdmin
