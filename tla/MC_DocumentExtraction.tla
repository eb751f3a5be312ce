----------------------- MODULE MC_DocumentExtraction -----------------------
(* Instances of DocumentExtraction for TLC. *)
EXTENDS DocumentExtraction

Setting(first, fallback, most, sources, token, require, key, minimum) ==
    [ai_provider |-> first, fallback_ai_provider |-> fallback, MAX_AI_ATTEMPTS |-> most,
     allowed_request_sources |-> sources, postas_ai_api_token |-> token,
     require_api_token |-> require, google_api_key |-> key, max_image_bytes |-> 2,
     accepted_confidence_threshold |-> 85000, minimum_confidence_threshold |-> minimum]

MCNames == {"google_genai", "gemini", "Gemini", "mock", "other"}

(* The defaults, a fallback, no key, the same model under two names, an    *)
(* unknown model, thresholds in the wrong order.                           *)
MCConfigurations ==
    { Setting("google_genai", None, 1, {}, None, FALSE, "key", 60000),
      Setting("google_genai", "mock", 2, {"postas"}, "secret", TRUE, "key", 60000),
      Setting("mock", "google_genai", 0, {}, None, TRUE, None, 60000),
      Setting("Gemini", "google_genai", 3, {}, None, FALSE, "key", 60000),
      Setting("other", "gemini", 2, {}, "secret", FALSE, "key", 60000),
      Setting("google_genai", "gemini", 2, {}, None, FALSE, "key", 90000) }

MCRequests ==
    { [provider |-> p, attempts |-> n, source |-> s, token |-> t] :
        p \in {None, "mock", "google_genai"}, n \in {0, 2},
        s \in {"postas", "unknown"}, t \in {None, "secret"} }

Image(scheme, reachable, header, guess, size) ==
    [scheme |-> scheme, reachable |-> reachable, header |-> header, guess |-> guess, size |-> size]

MCImages ==
    { Image("https", TRUE, "image", None, 2), Image("http", TRUE, None, "image", 1),
      Image("https", TRUE, "text", "image", 1), Image("https", TRUE, None, None, 1),
      Image("https", FALSE, "image", None, 1), Image("ftp", TRUE, "image", None, 1),
      Image("https", TRUE, "image", None, 3) }

(* Under both thresholds, between them, just under the upper one (rounded  *)
(* up to it), on it as a percentage, out of range on both sides, no number.  *)
MCRawConfidences == {None, NaN, -10, 30000, 70000, 84996, 8500000, 101000, 25000000}

MCUsageMetadata ==
    { [prompt |-> 3, completion |-> 1, total |-> 0], [prompt |-> 0, completion |-> 0, total |-> 5] }
=============================================================================
