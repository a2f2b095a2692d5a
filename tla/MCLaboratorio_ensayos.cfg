CONSTANTS
    Muestras = {m1}
    Pruebas = {p1, p2}
    MaxInformes = 1
    NINGUNA = NINGUNA
    Tramos = {"todo"}

SPECIFICATION SpecTramos
SYMMETRY Simetria

INVARIANTS
    EvidenciaIngresada
    LiberadoSoloVigente

PROPERTIES
    AnuladoPorInvalidacion
    EvidenciaConservada
    EmitidoSoloRevisado

