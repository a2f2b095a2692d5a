CONSTANTS
    Muestras = {m1}
    Pruebas = {p1}
    MaxInformes = 1
    NINGUNA = NINGUNA
    Tramos = {"todo"}

SPECIFICATION SpecTramos

INVARIANTS
    PublicadoSinRechazo

