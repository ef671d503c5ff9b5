\* The dashboard of an admin, of bendahara or of a customer while an admin writes.
SPECIFICATION SpecDasborAdil
CONSTANTS
    s1 = s1  s2 = s2  s3 = s3
    adm = adm  ben = ben  pet = pet  w1 = w1
    Tiada = Tiada
    Sesi = {s1}
    Username = {adm, ben, pet, w1}
    PemilikSesi <- HanyaAdmin
    IdTarif = {1}
    Tipe <- MCTipe
    Data <- MCSatuData
    HargaUji = {2}
    MeterUji = {2}
    MaxJam = 0
    MaxHari = 1
    TglPHP <- HariKedua
    TglDB <- HariKedua
    BulanDari <- BulanHarian
    BatasUmur = 0
    LoginAwal <- LoginDasbor
    TarifAwal <- MCTarif
    PemakaianAwal <- PemakaianDasbor
    NoAwal = 3
    TombolUji <- TombolDasbor
    MaxReq = 1
    BolehGagal = FALSE
    IsianBebas = FALSE
    SkripAir = FALSE
    Penonton = {adm, ben, w1}
    BulanPilih = {1, 2}
    MaxPilih = 2
    MaxMati = 1
    Jenis = {"summary"}
INVARIANTS TipeDasbor RobekTerbatas BelumDicatat
PROPERTIES AjaxDijawab
