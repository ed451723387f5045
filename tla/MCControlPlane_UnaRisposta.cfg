SPECIFICATION SpecScena
CONSTANTS
  Proposta <- PropostaUnica
  Revisore = {"r1"}
  Guasti = TRUE
  MaxOsservazioni = 2
  MaxSogni = 2
  MaxGiorni = 1
  MaxCadute = 1
  Nodo = {"n1", "n2"}
  Endpoint = {"s", "p"}
  Sicuri = {"s"}
  Fissi = {}
  Sede <- Sedi
  Scheda <- UnaScheda
  Annuncio = {"a1"}
  Operatore = {"o1"}
  GuastiDb = TRUE
  Alias = {"a"}
  Richiesta = {"r1", "r2"}
  Candidato = {1, 2}
  Vram <- OttoGiga
  Campione <- Misure
  MaxAttesa = 1
  MaxEsponente = 1
  Memoria = 0
  MaxNodi = 2
  MaxCoda = 2
  MaxCompiti = 2
  MaxRiavvii = 1
  Autore = {"a", "b", "c"}
  Frase = {"ciao", "promo"}
  Vietati = {"promo"}
  MaxAutori = 2
  Storia = 1
  Decadimento = 1
  Soglie <- TreSoglie
  BandoMassimo = 3
  FinestraMassima = 0
  SogliaOnda = 2
  Finestra = 2
  MaxMessaggi = 2
  Soglia = 1
  MaxTentativi = 2
  Webhook = FALSE
  MaxGiri = 3
  Squadra = {"w", "v"}
  Compatta = 2
  Freschi = 1
  MaxTurni = 4
  MaxDetti = 7
  MaxAzzerati = 2
  MaxGuasti = 1
  Configurazione <- Ambienti
  MaxVoci = 1
  MaxChiamate = 2
  MaxRicadute = 1
  Artefatti = {"a"}
  Bundle = {"e"}
  Sorgente = {"s", "t"}
  Valide <- Accettate
  MaxVersioni = 2
  MaxAMano = 1
  MaxFermate = 1
  Scene = {"poll"}
INVARIANT UnaRisposta
CHECK_DEADLOCK FALSE
