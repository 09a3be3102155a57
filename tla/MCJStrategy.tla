---------------------------- MODULE MCJStrategy ----------------------------
(* Small windows for JStrategy: three asks, a gap of two steps to each side. *)
EXTENDS JStrategy

MCUnit == 4

MCJ == [ probe_clip |-> 4, first_clip |-> 6, max_clip |-> 12, min_increment |-> 4,
         max_rescue |-> 18, max_window |-> 16, session_max |-> 0,
         tail_cap |-> <<18, 12, 6>>, cheap_max_ask |-> 1, expensive_ask |-> 2,
         expensive_min_gap |-> 2, abort_ask |-> 2, final_seal_max_ask |-> 3,
         final_seal_min_gap |-> 0, full_gap |-> 2, target_profit |-> 4,
         deep_value_ask |-> 1, low_atr_cap |-> 8,
         flip_enabled |-> TRUE, flip_require_spot_cross |-> TRUE,
         flip_min_gap |-> 1, flip_min_crosses |-> 2, flip_min_sig_crosses |-> 1,
         flip_tier |-> 8, flip_ratio |-> 50, flip_tier_max |-> 9, flip_clip |-> 4,
         flip_max_ask |-> 2, flip_sweep |-> 2, flip_require_tape |-> FALSE,
         sell_enabled |-> TRUE, sell_percent |-> 100, sell_min_bid |-> 1,
         sell_min_value |-> 4, sell_min_gap |-> 2, sell_market_secs |-> 1,
         reload_enabled |-> TRUE, discount_reload_max_ask |-> 1,
         discount_reload_min_drop |-> 1, discount_reload_min_gap |-> 1,
         discount_reload_clip |-> 6, discount_reload_max |-> 6,
         discount_reload_max_clips |-> 1,
         max_crosses |-> 2, max_sig_crosses |-> 2, min_buy_interval |-> 1,
         limit_ask_offset |-> 1, taker_max_ask |-> 3, min_winner_ask |-> 2,
         final_seal_secs |-> 1, rescue_zone_secs |-> 2, late_max_secs |-> 2,
         endgame_secs |-> 2, cheap_secs |-> 2, arm_secs |-> 2 ]

\* a longer endgame, so that there is time for a reversal and a reload
MCJLong == [MCJ EXCEPT !.endgame_secs = 3, !.cheap_secs = 3]

Asks(u) == [UP |-> u, DOWN |-> 4 - u]
Bids(u) == [a \in Sides |-> Asks(u)[a] - 1]
Moved(q, n) == [a \in Sides |-> Greater(q[a] + n, 0)]
\* How the levels of the book stand to the quotes.
BookAsk(u, b) == IF b = "none" THEN [a \in Sides |-> 0]
                 ELSE Moved(Asks(u), CASE b = "rose" -> 1 [] OTHER -> 0)
BookBid(u, b) == IF b = "none" THEN [a \in Sides |-> 0]
                 ELSE Moved(Bids(u), CASE b = "rose" -> 1 [] b = "fell" -> -1 [] OTHER -> 0)
MCTick(g, v, u, m, n, c, d, b) ==
  [gap |-> g, vel |-> v, ask |-> Asks(u), bid |-> Bids(u),
   book_ask |-> BookAsk(u, b), book_bid |-> BookBid(u, b), deeper |-> d # 4, book |-> b,
   mid |-> m, firm |-> TRUE, want |-> n, calm |-> c, near_ptb |-> g \in {-1, 1},
   low_atr |-> FALSE, tape |-> TRUE, depth |-> d]
MCTicks ==
  { MCTick(g, v, u, m, n, c, d, b) :
    g \in -2..2, v \in {-2, 1}, u \in 1..3, n \in {-1, 18}, m \in {"UP", "TIE"},
    c \in BOOLEAN, d \in {2, 4, 12}, b \in {"same", "rose", "fell", "none"} }
\* the same market with one thing out of order at a time
MCFewTicks ==
  { t \in MCTicks : /\ t.mid = "UP" => t.want = 18 /\ t.calm /\ t.depth = 12 /\ t.vel = 1
                    /\ t.depth # 12 => t.want = 18 /\ t.calm /\ t.vel = 1
                    /\ ~t.calm => t.want = 18 /\ t.vel = 1
                    /\ t.book # "same" => /\ t.want = 18 /\ t.calm /\ t.mid = "TIE"
                                          /\ t.depth = 12 /\ t.vel = 1 /\ t.gap \in {-2, 2}
                    /\ t.book = "rose" => t.gap = 2
                    /\ t.book = "fell" => t.gap = -2 }
\* quiet ticks of a market with plenty of depth
MCCalmTicks ==
  { MCTick(g, 1, u, "TIE", n, TRUE, 12, "same") : g \in -2..2, u \in 1..3, n \in {-1, 12, 18} }
=============================================================================
