\* Bills while the tariffs change.
SPECIFICATION Spec
CONSTANTS
    s1 = s1  s2 = s2  s3 = s3
    adm = adm  ben = ben  pet = pet  w1 = w1
    Tiada = Tiada
    Sesi = {s1, s2}
    Username = {adm, ben, pet, w1}
    PemilikSesi <- BenAdm
    IdTarif = {1, 2}
    Tipe <- MCTipe
    Data <- MCSatuData
    HargaUji = {3}
    MeterUji = {1}
    MaxJam = 0
    MaxHari = 1
    TglPHP <- MCHari
    TglDB <- MCHari
    BulanDari <- MCBulan
    BatasUmur = 0
    LoginAwal <- MCLogin
    TarifAwal <- MCTarif
    PemakaianAwal <- MCPemakaianKosong
    NoAwal = 0
    TombolUji <- TombolTarif
    MaxReq = 3
    BolehGagal = FALSE
    IsianBebas = TRUE
    SkripAir = FALSE
INVARIANTS TagihanBerdasar
