CONSTANTS
    Muestras = {m1, m2}
    Pruebas = {p1}
    MaxInformes = 1
    NINGUNA = NINGUNA
    Tramos = {"analisis", "entrega"}

SPECIFICATION SpecTramos
SYMMETRY Simetria

INVARIANTS
    TypeOK
    RevisadaRespaldada
    LoteRevisadoRespaldado
    ReportadoEntregado

PROPERTIES
    CumplePublicacion
