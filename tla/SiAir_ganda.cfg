\* Two sessions record one customer in one month.
SPECIFICATION Spec
CONSTANTS
    s1 = s1  s2 = s2  s3 = s3
    adm = adm  ben = ben  pet = pet  w1 = w1
    Tiada = Tiada
    Sesi = {s1, s2}
    Username = {adm, ben, pet, w1}
    PemilikSesi <- PetPet
    IdTarif = {1}
    Tipe <- MCTipe
    Data <- MCSatuData
    HargaUji = {2}
    MeterUji = {0, 1}
    MaxJam = 0
    MaxHari = 2
    TglPHP <- MCHari
    TglDB <- MCHari
    BulanDari <- MCBulan
    BatasUmur = 0
    LoginAwal <- MCLogin
    TarifAwal <- MCTarif
    PemakaianAwal <- MCPemakaianKosong
    NoAwal = 0
    TombolUji <- TombolMeter
    MaxReq = 2
    BolehGagal = FALSE
    IsianBebas = FALSE
    SkripAir = FALSE
INVARIANTS SatuPerBulan
