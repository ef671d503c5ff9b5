\* Proofs of payment against edits and deletions, with requests that die.
SPECIFICATION SpecAdil
CONSTANTS
    s1 = s1  s2 = s2  s3 = s3
    adm = adm  ben = ben  pet = pet  w1 = w1
    Tiada = Tiada
    Sesi = {s1, s2}
    Username = {adm, w1}
    PemilikSesi <- WarAdm
    IdTarif = {1}
    Tipe <- MCTipe
    Data <- MCSatuData
    HargaUji = {2}
    MeterUji = {0, 1}
    MaxJam = 1
    MaxHari = 1
    TglPHP <- MCHari
    TglDB <- MCHari
    BulanDari <- MCBulan
    BatasUmur = 0
    LoginAwal <- MCLoginKecil
    TarifAwal <- MCTarif
    PemakaianAwal <- MCPemakaian
    NoAwal = 1
    TombolUji <- TombolBukti
    MaxReq = 3
    BolehGagal = TRUE
    IsianBebas = TRUE
    SkripAir = FALSE
INVARIANTS BuktiSesuai AuditBenar
PROPERTIES DitulisLaluTercatat LedgerSpec
